---------------------------- MODULE Spec2Model ----------------------------
(***************************************************************************)
(* Soft323x: a software DS3231/DS3232 real-time clock (soft323x.hpp) and   *)
(* the ATmega168 example firmware that drives it (main_atmega168.cpp).     *)
(*                                                                         *)
(* An RTC object is a record [regs, m_ticks, m_wrote_date]; every method   *)
(* of the class is an operator from objects to objects, computed the way   *)
(* the C++ computes it on uint8_t registers.                               *)
(***************************************************************************)
EXTENDS Integers, Sequences, FiniteSets, TLC

VARIABLES
    rtc,         \* the Soft323x instance under test
    rtc2,        \* a second Soft323x instance (the twin of the comparisons)
    last,        \* the operation performed by the last step
    ret,         \* the value returned by the last i2c_read / i2c_write
    nticks,      \* number of tick() calls so far
    napplied,    \* number of increment_time() executions so far
    nwrites,     \* number of i2c_write() calls so far
    overflowed,  \* TRUE once tick() was called with 255 ticks pending
    mpc,         \* main context: position inside the main loop / update()
    m_n,         \* main context: update()'s local "ticks"
    m_i,         \* main context: update()'s loop counter "i"
    i2c_status,  \* example firmware: driver state
    i2c_addr,    \* example firmware: register cursor
    i2c_data,    \* example firmware: byte received from the master
    TWDR,        \* example firmware: TWI data register (byte sent)
    nevents      \* number of TWI interrupts served so far

vars == << rtc, rtc2, last, ret, nticks, napplied, nwrites, overflowed,
           mpc, m_n, m_i, i2c_status, i2c_addr, i2c_data, TWDR, nevents >>

-----------------------------------------------------------------------------
(* uint8_t arithmetic                                                      *)

\* a & b on uint8_t, bit by bit.
BitAnd(a, b) ==
      (a % 2) * (b % 2)
    + 2 * (((a \div 2) % 2) * ((b \div 2) % 2))
    + 4 * (((a \div 4) % 2) * ((b \div 4) % 2))
    + 8 * (((a \div 8) % 2) * ((b \div 8) % 2))
    + 16 * (((a \div 16) % 2) * ((b \div 16) % 2))
    + 32 * (((a \div 32) % 2) * ((b \div 32) % 2))
    + 64 * (((a \div 64) % 2) * ((b \div 64) % 2))
    + 128 * (((a \div 128) % 2) * ((b \div 128) % 2))

BitOr(a, b) == a + b - BitAnd(a, b)

BitXor(a, b) == a + b - 2 * BitAnd(a, b)

BitNot(a) == 255 - a

\* m_regs.mem[a]: the register bank is the sequence of its bytes, the byte of
\* address a at index a + 1.
Reg(r, a) == r[a + 1]

SetReg(r, a, v) == [r EXCEPT ![a + 1] = v]

-----------------------------------------------------------------------------
(* Public constants                                                        *)

MASK_SECONDS == 127
MASK_MINUTES == 127
MASK_HOURS_12_HOURS == 31
MASK_HOURS_24_HOURS == 63
MASK_DAY == 7
MASK_DATE == 63
MASK_MONTH == 31
MASK_YEAR == 255

BIT_HOUR_12_HOURS == 64
BIT_HOUR_PM == 32
BIT_MONTH_CENTURY == 128
BIT_ALARM_MODE == 128
BIT_ALARM_IS_DAY == 64
BIT_CTRL_1_CONV == 32
BIT_CTRL_1_RS2 == 16
BIT_CTRL_1_RS1 == 8
BIT_CTRL_1_INTCN == 4
BIT_CTRL_2_OSF == 128
BIT_CTRL_2_BSY == 4
BIT_CTRL_2_A2F == 2
BIT_CTRL_2_A1F == 1
BIT_CTRL_3_BB_TD == 1

BIT_MONTH_CENTURY0 == 128
BIT_MONTH_CENTURY1 == 64
BIT_MONTH_CENTURY2 == 32

ACTION_RESET_TIMER == 1
ACTION_CONVERT_TEMPERATURE == 2

REG_SECONDS == 0
REG_MINUTES == 1
REG_HOURS == 2
REG_DAY == 3
REG_DATE == 4
REG_MONTH == 5
REG_YEAR == 6
REG_ALARM_1_SECONDS == 7
REG_ALARM_1_MINUTES == 8
REG_ALARM_1_HOURS == 9
REG_ALARM_1_DAY_OR_DATE == 10
REG_ALARM_2_MINUTES == 11
REG_ALARM_2_HOURS == 12
REG_ALARM_2_DAY_OR_DATE == 13
REG_CTRL_1 == 14
REG_CTRL_2 == 15
REG_AGING_OFFSET == 16
REG_TEMP_MSB == 17
REG_TEMP_LSB == 18
REG_CTRL_3 == 19
REG_SRAM == 20

\* Template parameter SRAM_SIZE: bytes of user SRAM behind the registers.
SRAM_SIZE == 2

\* sizeof(Registers)
BankSize == REG_SRAM + SRAM_SIZE

-----------------------------------------------------------------------------
(* BCD arithmetic                                                          *)

\* bcd_enc(), the return statement: (msd << 4) | lsd.
bcd_enc_pack(lsd, msd) == BitOr((msd * 16) % 256, lsd)

\* bcd_enc(), the tests "lsd >= 10", ">= 20", ">= 40", ">= 80" in the order
\* the code runs them (80 first).
bcd_enc_10(lsd, msd) ==
    bcd_enc_pack(IF lsd >= 10 THEN lsd - 10 ELSE lsd,
                 IF lsd >= 10 THEN msd + 1 ELSE msd)

bcd_enc_20(lsd, msd) ==
    bcd_enc_10(IF lsd >= 20 THEN lsd - 20 ELSE lsd,
               IF lsd >= 20 THEN msd + 2 ELSE msd)

bcd_enc_40(lsd, msd) ==
    bcd_enc_20(IF lsd >= 40 THEN lsd - 40 ELSE lsd,
               IF lsd >= 40 THEN msd + 4 ELSE msd)

bcd_enc(value) ==
    bcd_enc_40(IF value >= 80 THEN value - 80 ELSE value,
               IF value >= 80 THEN 8 ELSE 0)

bcd_dec(value) == (value - 6 * (value \div 16)) % 256

bcd_canon(value, min_bcd, max_bcd) ==
    LET msd_max == BitAnd(max_bcd, 240)
        lsd_max == BitAnd(max_bcd, 15)
        msd_min == BitAnd(min_bcd, 240)
        lsd_min == BitAnd(min_bcd, 15)
        msd == BitAnd(value, 240)
        lsd == BitAnd(value, 15)
    IN  IF msd > msd_max \/ (msd = msd_max /\ lsd > lsd_max)
        THEN BitOr(msd_max, lsd_max)
        ELSE IF msd < msd_min \/ (msd = msd_min /\ lsd < lsd_min)
             THEN BitOr(msd_min, lsd_min)
             ELSE BitOr(msd, lsd)

\* increment_bcd returns the new register byte and the overflow flag.
\* Variant of increment_bcd: the last digit is incremented without the carry
\* into the next digit.
increment_bcd_no_digit_carry(reg, mask, max_bcd, overflow_to_bcd) ==
    LET bcd0 == BitAnd(reg, mask)
        overflow == (bcd0 = max_bcd)
        bcd1 == IF overflow THEN overflow_to_bcd ELSE (bcd0 + 1) % 256
    IN  [ reg |-> BitOr(BitAnd(reg, BitNot(mask)), BitAnd(bcd1, mask)),
          overflow |-> overflow ]

increment_bcd(reg, mask, max_bcd, overflow_to_bcd) ==
    LET bcd0 == BitAnd(reg, mask)
        overflow == (bcd0 = max_bcd)
        inc == (bcd0 + 1) % 256
        bcd1 == IF overflow
                THEN overflow_to_bcd
                ELSE IF BitAnd(inc, 15) >= 10
                     THEN (BitAnd(inc, 240) + 16) % 256
                     ELSE inc
    IN  [ reg |-> BitOr(BitAnd(reg, BitNot(mask)), BitAnd(bcd1, mask)),
          overflow |-> overflow ]

-----------------------------------------------------------------------------
(* Calendar rules                                                          *)

\* Variant of is_leap_year: without the 400-year rule.
is_leap_year_julian100(y) == (y % 4 = 0) /\ (y % 100 # 0)

is_leap_year(y) == (y % 4 = 0) /\ ((y % 100 # 0) \/ (y % 400 = 0))

number_of_days(m, y) ==
    CASE m = 1 -> 31
      [] m = 2 -> IF is_leap_year(y) THEN 29 ELSE 28
      [] m = 3 -> 31
      [] m = 4 -> 30
      [] m = 5 -> 31
      [] m = 6 -> 30
      [] m = 7 -> 31
      [] m = 8 -> 31
      [] m = 9 -> 30
      [] m = 10 -> 31
      [] m = 11 -> 30
      [] m = 12 -> 31
      [] OTHER -> 0

-----------------------------------------------------------------------------
(* Time/date accessors, on a register bank r                               *)

seconds(r) == bcd_dec(BitAnd(Reg(r, REG_SECONDS), MASK_SECONDS))

minutes(r) == bcd_dec(BitAnd(Reg(r, REG_MINUTES), MASK_MINUTES))

\* Variant of hours: the PM bit adds 12 to every hour, 12 included, and 12 AM
\* is read as 12.
hours_pm_adds_12(r) ==
    IF BitAnd(Reg(r, REG_HOURS), BIT_HOUR_12_HOURS) # 0
    THEN LET h == bcd_dec(BitAnd(Reg(r, REG_HOURS), MASK_HOURS_12_HOURS))
         IN  IF BitAnd(Reg(r, REG_HOURS), BIT_HOUR_PM) # 0
             THEN (12 + h) % 256
             ELSE h
    ELSE bcd_dec(BitAnd(Reg(r, REG_HOURS), MASK_HOURS_24_HOURS))

hours(r) ==
    IF BitAnd(Reg(r, REG_HOURS), BIT_HOUR_12_HOURS) # 0
    THEN LET h == bcd_dec(BitAnd(Reg(r, REG_HOURS), MASK_HOURS_12_HOURS))
         IN  IF BitAnd(Reg(r, REG_HOURS), BIT_HOUR_PM) # 0
             THEN IF h = 12 THEN h ELSE (12 + h) % 256
             ELSE IF h = 12 THEN 0 ELSE h
    ELSE bcd_dec(BitAnd(Reg(r, REG_HOURS), MASK_HOURS_24_HOURS))

day(r) == bcd_dec(BitAnd(Reg(r, REG_DAY), MASK_DAY))

date(r) == bcd_dec(BitAnd(Reg(r, REG_DATE), MASK_DATE))

month(r) == bcd_dec(BitAnd(Reg(r, REG_MONTH), MASK_MONTH))

\* Variant of year: only the first century bit counts.
year_one_century_bit(r) ==
    1900 + bcd_dec(BitAnd(Reg(r, REG_YEAR), MASK_YEAR))
    + (IF BitAnd(Reg(r, REG_MONTH), BIT_MONTH_CENTURY0) # 0 THEN 100 ELSE 0)

year(r) ==
    1900 + bcd_dec(BitAnd(Reg(r, REG_YEAR), MASK_YEAR))
    + (IF BitAnd(Reg(r, REG_MONTH), BIT_MONTH_CENTURY0) # 0 THEN 100 ELSE 0)
    + (IF BitAnd(Reg(r, REG_MONTH), BIT_MONTH_CENTURY1) # 0 THEN 200 ELSE 0)
    + (IF BitAnd(Reg(r, REG_MONTH), BIT_MONTH_CENTURY2) # 0 THEN 400 ELSE 0)

-----------------------------------------------------------------------------
(* The time advance engine                                                 *)

\* canonicalise_date(): clamp the date register to 1 .. number_of_days.
canonicalise_date(r) ==
    LET n_days == number_of_days(month(r), year(r))
    IN  SetReg(r, REG_DATE, bcd_canon(Reg(r, REG_DATE), bcd_enc(1), bcd_enc(n_days)))

\* Variant of toggle_century2: the third century bit is toggled whatever the
\* second has become.
toggle_century2_always(r) ==
    SetReg(r, REG_MONTH, BitXor(Reg(r, REG_MONTH), BIT_MONTH_CENTURY2))

\* increment_time(), lines 225-229: the carry into the century bits 1 and 2.
toggle_century2(r) ==
    IF BitAnd(Reg(r, REG_MONTH), BIT_MONTH_CENTURY1) = 0
    THEN SetReg(r, REG_MONTH, BitXor(Reg(r, REG_MONTH), BIT_MONTH_CENTURY2))
    ELSE r

toggle_century1(r) ==
    IF BitAnd(Reg(r, REG_MONTH), BIT_MONTH_CENTURY0) = 0
    THEN toggle_century2(SetReg(r, REG_MONTH,
                                BitXor(Reg(r, REG_MONTH), BIT_MONTH_CENTURY1)))
    ELSE r

\* Variant of toggle_century: the first century bit is toggled, without carry.
toggle_century_no_carry(r) ==
    SetReg(r, REG_MONTH, BitXor(Reg(r, REG_MONTH), BIT_MONTH_CENTURY0))

\* increment_time(), lines 222-230: a new century has begun.
toggle_century(r) ==
    toggle_century1(SetReg(r, REG_MONTH,
                           BitXor(Reg(r, REG_MONTH), BIT_MONTH_CENTURY0)))

\* increment_time(), lines 217-220: increment the year.
increment_year(r) ==
    LET yr == increment_bcd(Reg(r, REG_YEAR), MASK_YEAR, bcd_enc(99), 0)
    IN  IF ~yr.overflow
        THEN SetReg(r, REG_YEAR, yr.reg)
        ELSE toggle_century(SetReg(r, REG_YEAR, yr.reg))

\* increment_time(), lines 212-215: increment the month.
increment_month(r) ==
    LET mo == increment_bcd(Reg(r, REG_MONTH), MASK_MONTH, bcd_enc(12), 1)
    IN  IF ~mo.overflow
        THEN SetReg(r, REG_MONTH, mo.reg)
        ELSE increment_year(SetReg(r, REG_MONTH, mo.reg))

\* increment_time(), lines 204-210: increment the date.
increment_date(r) ==
    LET dt == increment_bcd(Reg(r, REG_DATE), MASK_DATE,
                            bcd_enc(number_of_days(month(r), year(r))), 1)
    IN  IF ~dt.overflow
        THEN SetReg(r, REG_DATE, dt.reg)
        ELSE increment_month(SetReg(r, REG_DATE, dt.reg))

\* increment_time(), lines 201-202: a new day has started.
increment_day(r) ==
    increment_date(SetReg(r, REG_DAY,
        increment_bcd(Reg(r, REG_DAY), MASK_DAY, bcd_enc(7), 1).reg))

\* Variant of increment_hours_flipped: the new day starts at noon.
increment_hours_flipped_noon(r) ==
    IF BitAnd(Reg(r, REG_HOURS), BIT_HOUR_PM) = 0 THEN r ELSE increment_day(r)

\* increment_time(), lines 180-186: the AM/PM flag was flipped at 12.
increment_hours_flipped(r) ==
    IF BitAnd(Reg(r, REG_HOURS), BIT_HOUR_PM) # 0 THEN r ELSE increment_day(r)

\* increment_time(), lines 174-192: r holds the incremented 12-hour register.
increment_hours_12(r, overflow) ==
    IF overflow THEN increment_day(r)
    ELSE IF BitAnd(Reg(r, REG_HOURS), MASK_HOURS_12_HOURS) = bcd_enc(13)
    THEN SetReg(r, REG_HOURS,
                BitOr(BitAnd(Reg(r, REG_HOURS), BitNot(MASK_HOURS_12_HOURS)),
                      bcd_enc(1)))
    ELSE IF BitAnd(Reg(r, REG_HOURS), MASK_HOURS_12_HOURS) = bcd_enc(12)
    THEN increment_hours_flipped(
             SetReg(r, REG_HOURS, BitXor(Reg(r, REG_HOURS), BIT_HOUR_PM)))
    ELSE r

\* increment_time(), lines 172-199: the hour, in 12 or in 24 hour mode.
increment_hours(r) ==
    IF BitAnd(Reg(r, REG_HOURS), BIT_HOUR_12_HOURS) # 0
    THEN LET h == increment_bcd(Reg(r, REG_HOURS), MASK_HOURS_12_HOURS, bcd_enc(13), 1)
         IN  increment_hours_12(SetReg(r, REG_HOURS, h.reg), h.overflow)
    ELSE LET h == increment_bcd(Reg(r, REG_HOURS), MASK_HOURS_24_HOURS, bcd_enc(23), 0)
         IN  IF ~h.overflow
             THEN SetReg(r, REG_HOURS, h.reg)
             ELSE increment_day(SetReg(r, REG_HOURS, h.reg))

\* increment_time(), lines 167-170: increment the minutes.
increment_minutes(r) ==
    LET m == increment_bcd(Reg(r, REG_MINUTES), MASK_MINUTES, bcd_enc(59), 0)
    IN  IF ~m.overflow
        THEN SetReg(r, REG_MINUTES, m.reg)
        ELSE increment_hours(SetReg(r, REG_MINUTES, m.reg))

\* increment_time(): advance the time registers by one second.
increment_time(r) ==
    LET s == increment_bcd(Reg(r, REG_SECONDS), MASK_SECONDS, bcd_enc(59), 0)
    IN  IF ~s.overflow
        THEN SetReg(r, REG_SECONDS, s.reg)
        ELSE increment_minutes(SetReg(r, REG_SECONDS, s.reg))

-----------------------------------------------------------------------------
(* The alarm engine                                                        *)

\* Variant of alarm1: the hours are not compared.
alarm1_any_hour(r) ==
    /\ BitAnd(Reg(r, REG_CTRL_2), BIT_CTRL_2_A1F) = 0
    /\ \/ BitAnd(Reg(r, REG_ALARM_1_SECONDS), BIT_ALARM_MODE) # 0
       \/ BitAnd(Reg(r, REG_ALARM_1_SECONDS), MASK_SECONDS)
            = BitAnd(Reg(r, REG_SECONDS), MASK_SECONDS)
    /\ \/ BitAnd(Reg(r, REG_ALARM_1_MINUTES), BIT_ALARM_MODE) # 0
       \/ BitAnd(Reg(r, REG_ALARM_1_MINUTES), MASK_MINUTES)
            = BitAnd(Reg(r, REG_MINUTES), MASK_MINUTES)
    /\ \/ BitAnd(Reg(r, REG_ALARM_1_DAY_OR_DATE), BIT_ALARM_MODE) # 0
       \/ IF BitAnd(Reg(r, REG_ALARM_1_DAY_OR_DATE), BIT_ALARM_IS_DAY) # 0
          THEN BitAnd(Reg(r, REG_ALARM_1_DAY_OR_DATE), MASK_DAY)
                 = BitAnd(Reg(r, REG_DAY), MASK_DAY)
          ELSE BitAnd(Reg(r, REG_ALARM_1_DAY_OR_DATE), MASK_DATE)
                 = BitAnd(Reg(r, REG_DATE), MASK_DATE)

\* check_alarms(): alarm 1 has triggered.
alarm1(r) ==
    LET a1f == BitAnd(Reg(r, REG_CTRL_2), BIT_CTRL_2_A1F) # 0
        a1m1 == BitAnd(Reg(r, REG_ALARM_1_SECONDS), BIT_ALARM_MODE) # 0
        a1m2 == BitAnd(Reg(r, REG_ALARM_1_MINUTES), BIT_ALARM_MODE) # 0
        a1m3 == BitAnd(Reg(r, REG_ALARM_1_HOURS), BIT_ALARM_MODE) # 0
        a1m4 == BitAnd(Reg(r, REG_ALARM_1_DAY_OR_DATE), BIT_ALARM_MODE) # 0
        a1dy == BitAnd(Reg(r, REG_ALARM_1_DAY_OR_DATE), BIT_ALARM_IS_DAY) # 0
        ss == BitAnd(Reg(r, REG_SECONDS), MASK_SECONDS)
        mm == BitAnd(Reg(r, REG_MINUTES), MASK_MINUTES)
        hh == BitAnd(Reg(r, REG_HOURS), 127)
        dy == BitAnd(Reg(r, REG_DAY), MASK_DAY)
        dt == BitAnd(Reg(r, REG_DATE), MASK_DATE)
        a1_ss == BitAnd(Reg(r, REG_ALARM_1_SECONDS), MASK_SECONDS)
        a1_mm == BitAnd(Reg(r, REG_ALARM_1_MINUTES), MASK_MINUTES)
        a1_hh == BitAnd(Reg(r, REG_ALARM_1_HOURS), 127)
        a1_dy_dt == IF a1dy THEN BitAnd(Reg(r, REG_ALARM_1_DAY_OR_DATE), MASK_DAY)
                            ELSE BitAnd(Reg(r, REG_ALARM_1_DAY_OR_DATE), MASK_DATE)
    IN  (~a1f) /\ (a1m1 \/ (~a1m1 /\ a1_ss = ss))
               /\ (a1m2 \/ (~a1m2 /\ a1_mm = mm))
               /\ (a1m3 \/ (~a1m3 /\ a1_hh = hh))
               /\ (a1m4 \/ (~a1m4 /\ (IF a1dy THEN dy ELSE dt) = a1_dy_dt))

\* Variant of alarm2: the seconds are not compared with zero.
alarm2_any_second(r) ==
    /\ BitAnd(Reg(r, REG_CTRL_2), BIT_CTRL_2_A2F) = 0
    /\ \/ BitAnd(Reg(r, REG_ALARM_2_MINUTES), BIT_ALARM_MODE) # 0
       \/ BitAnd(Reg(r, REG_ALARM_2_MINUTES), MASK_MINUTES)
            = BitAnd(Reg(r, REG_MINUTES), MASK_MINUTES)
    /\ \/ BitAnd(Reg(r, REG_ALARM_2_HOURS), BIT_ALARM_MODE) # 0
       \/ BitAnd(Reg(r, REG_ALARM_2_HOURS), 127) = BitAnd(Reg(r, REG_HOURS), 127)
    /\ \/ BitAnd(Reg(r, REG_ALARM_2_DAY_OR_DATE), BIT_ALARM_MODE) # 0
       \/ IF BitAnd(Reg(r, REG_ALARM_2_DAY_OR_DATE), BIT_ALARM_IS_DAY) # 0
          THEN BitAnd(Reg(r, REG_ALARM_2_DAY_OR_DATE), MASK_DAY)
                 = BitAnd(Reg(r, REG_DAY), MASK_DAY)
          ELSE BitAnd(Reg(r, REG_ALARM_2_DAY_OR_DATE), MASK_DATE)
                 = BitAnd(Reg(r, REG_DATE), MASK_DATE)

\* check_alarms(): alarm 2 has triggered.
alarm2(r) ==
    LET a2f == BitAnd(Reg(r, REG_CTRL_2), BIT_CTRL_2_A2F) # 0
        a2m1 == BitAnd(Reg(r, REG_ALARM_2_MINUTES), BIT_ALARM_MODE) # 0
        a2m2 == BitAnd(Reg(r, REG_ALARM_2_HOURS), BIT_ALARM_MODE) # 0
        a2m3 == BitAnd(Reg(r, REG_ALARM_2_DAY_OR_DATE), BIT_ALARM_MODE) # 0
        a2dy == BitAnd(Reg(r, REG_ALARM_2_DAY_OR_DATE), BIT_ALARM_IS_DAY) # 0
        ss == BitAnd(Reg(r, REG_SECONDS), MASK_SECONDS)
        mm == BitAnd(Reg(r, REG_MINUTES), MASK_MINUTES)
        hh == BitAnd(Reg(r, REG_HOURS), 127)
        dy == BitAnd(Reg(r, REG_DAY), MASK_DAY)
        dt == BitAnd(Reg(r, REG_DATE), MASK_DATE)
        a2_mm == BitAnd(Reg(r, REG_ALARM_2_MINUTES), MASK_MINUTES)
        a2_hh == BitAnd(Reg(r, REG_ALARM_2_HOURS), 127)
        a2_dy_dt == IF a2dy THEN BitAnd(Reg(r, REG_ALARM_2_DAY_OR_DATE), MASK_DAY)
                            ELSE BitAnd(Reg(r, REG_ALARM_2_DAY_OR_DATE), MASK_DATE)
    IN  (~a2f) /\ (ss = 0)
               /\ (a2m1 \/ (~a2m1 /\ a2_mm = mm))
               /\ (a2m2 \/ (~a2m2 /\ a2_hh = hh))
               /\ (a2m3 \/ (~a2m3 /\ (IF a2dy THEN dy ELSE dt) = a2_dy_dt))

\* Variant of check_alarms: a flag follows its alarm, it is cleared when the
\* alarm has not triggered.
check_alarms_level(r) ==
    SetReg(r, REG_CTRL_2,
           BitAnd(Reg(r, REG_CTRL_2), BitNot(BIT_CTRL_2_A1F + BIT_CTRL_2_A2F))
           + (IF alarm1(r) THEN BIT_CTRL_2_A1F ELSE 0)
           + (IF alarm2(r) THEN BIT_CTRL_2_A2F ELSE 0))

\* check_alarms(): set the "alarm fired" flags in control 2.
check_alarms(r) ==
    LET f1 == IF alarm1(r) THEN BitOr(Reg(r, REG_CTRL_2), BIT_CTRL_2_A1F) ELSE Reg(r, REG_CTRL_2)
        f2 == IF alarm2(r) THEN BitOr(f1, BIT_CTRL_2_A2F) ELSE f1
    IN  SetReg(r, REG_CTRL_2, f2)

-----------------------------------------------------------------------------
(* The Soft323x object: [regs, m_ticks, m_wrote_date]                      *)

\* Variant of atomic_consume_ticks: the ticks are read but not cleared.
atomic_consume_ticks_keep(o) == [ ticks |-> o.m_ticks, obj |-> o ]

\* atomic_consume_ticks(): the ticks read, and the object with m_ticks = 0.
atomic_consume_ticks(o) ==
    [ ticks |-> o.m_ticks, obj |-> [o EXCEPT !.m_ticks = 0] ]

\* reset(): registers 00h..13h are set, the SRAM bytes are not touched.
\* Variant of reset: the time and date are reset, the alarm and control
\* registers are left as they are.
reset_time_only(o) ==
    [ regs |-> << bcd_enc(0), bcd_enc(0), bcd_enc(0), bcd_enc(2), bcd_enc(1),
                  BitOr(bcd_enc(1), BIT_MONTH_CENTURY), bcd_enc(19) >>
                \o SubSeq(o.regs, REG_ALARM_1_SECONDS + 1, BankSize),
      m_ticks |-> 0,
      m_wrote_date |-> FALSE ]

reset(o) ==
    [ regs |-> << bcd_enc(0),                              \* seconds
                  bcd_enc(0),                              \* minutes
                  bcd_enc(0),                              \* hours
                  bcd_enc(2),                              \* day
                  bcd_enc(1),                              \* date
                  BitOr(bcd_enc(1), BIT_MONTH_CENTURY),    \* month
                  bcd_enc(19),                             \* year
                  bcd_enc(0),                              \* alarm_1_seconds
                  bcd_enc(0),                              \* alarm_1_minutes
                  bcd_enc(0),                              \* alarm_1_hours
                  bcd_enc(1),                              \* alarm_1_day_or_date
                  bcd_enc(0),                              \* alarm_2_minutes
                  bcd_enc(0),                              \* alarm_2_hours
                  bcd_enc(1),                              \* alarm_2_day_or_date
                  BitOr(BitOr(BIT_CTRL_1_RS2, BIT_CTRL_1_RS1), BIT_CTRL_1_INTCN),
                  BIT_CTRL_2_OSF,                          \* ctrl_2
                  0,                                       \* aging_offset
                  255,                                     \* temp_msb
                  192,                                     \* temp_lsb
                  0 >>                                     \* ctrl_3
                \o SubSeq(o.regs, REG_SRAM + 1, BankSize),
      m_ticks |-> atomic_consume_ticks(o).obj.m_ticks,
      m_wrote_date |-> FALSE ]

\* Soft323x(): the constructor runs reset() on the object's storage, whose
\* SRAM bytes hold whatever the storage held (fill).
Soft323x(fill) ==
    reset([ regs |-> [i \in 1 .. BankSize |-> fill],
            m_ticks |-> fill, m_wrote_date |-> FALSE ])

\* Variant of set_oscillator_stop_flag: control 2 is assigned the flag alone.
set_oscillator_stop_flag_assign(o) ==
    [o EXCEPT !.regs = SetReg(@, REG_CTRL_2, BIT_CTRL_2_OSF)]

set_oscillator_stop_flag(o) ==
    [o EXCEPT !.regs = SetReg(@, REG_CTRL_2, BitOr(Reg(@, REG_CTRL_2), BIT_CTRL_2_OSF))]

\* Variant of tick: the accumulator stops at 255 instead of wrapping.
tick_saturating(o) == [o EXCEPT !.m_ticks = IF @ = 255 THEN 255 ELSE @ + 1]

\* Variant of tick: the second is applied to the registers at once.
tick_eager(o) ==
    [o EXCEPT !.m_ticks = (@ + 1) % 256, !.regs = increment_time(@)]

tick(o) == [o EXCEPT !.m_ticks = (@ + 1) % 256]

\* update(), lines 740-741: the loop body.
apply_tick(r) == check_alarms(increment_time(r))

\* Variant of apply_ticks: however many ticks are pending, one is applied.
apply_ticks_once(r, n) == IF n = 0 THEN r ELSE apply_tick(r)

\* update(), lines 739-742: the loop body run n times, one tick after the
\* other: the first n \div 2 iterations (h, evaluated before the rest is
\* started, which keeps the evaluation shallow), then the remaining ones.
RECURSIVE apply_ticks(_, _)
apply_ticks(r, n) ==
    IF n = 0 THEN r
    ELSE IF n = 1 THEN apply_tick(r)
    ELSE LET h == apply_ticks(r, n \div 2)
         IN  IF Len(h) = BankSize THEN apply_ticks(h, n - (n \div 2)) ELSE h

\* Variant of update: the pending ticks are applied first, the date is
\* canonicalised afterwards.
update_clamp_last(o) ==
    LET c == atomic_consume_ticks(o)
        r == apply_ticks(c.obj.regs, c.ticks)
    IN  IF o.m_wrote_date
        THEN [c.obj EXCEPT !.regs = canonicalise_date(r), !.m_wrote_date = FALSE]
        ELSE [c.obj EXCEPT !.regs = r]

\* Variant of update: an update that applies a tick also clears the
\* oscillator stop flag.
update_clears_osf(o) ==
    LET o1 == IF o.m_wrote_date
              THEN [o EXCEPT !.regs = canonicalise_date(o.regs),
                             !.m_wrote_date = FALSE]
              ELSE o
        c == atomic_consume_ticks(o1)
        r == apply_ticks(c.obj.regs, c.ticks)
    IN  [c.obj EXCEPT !.regs =
            IF c.ticks = 0 THEN r
            ELSE SetReg(r, REG_CTRL_2,
                        BitAnd(Reg(r, REG_CTRL_2), BitNot(BIT_CTRL_2_OSF)))]

\* Variant of update: the alarms are checked once more after the loop, ticks
\* or no ticks.
update_checks_alarms_always(o) ==
    LET o1 == IF o.m_wrote_date
              THEN [o EXCEPT !.regs = canonicalise_date(o.regs),
                             !.m_wrote_date = FALSE]
              ELSE o
        c == atomic_consume_ticks(o1)
    IN  [c.obj EXCEPT !.regs = check_alarms(apply_ticks(c.obj.regs, c.ticks))]

update(o) ==
    LET o1 == IF o.m_wrote_date
              THEN [o EXCEPT !.regs = canonicalise_date(o.regs),
                             !.m_wrote_date = FALSE]
              ELSE o
        c == atomic_consume_ticks(o1)
    IN  [c.obj EXCEPT !.regs = apply_ticks(c.obj.regs, c.ticks)]

\* Variant of i2c_read: the bounds check is against the 20 registers without
\* the SRAM.
i2c_read_registers_only(o, addr) == IF addr >= REG_SRAM THEN 0 ELSE Reg(o.regs, addr)

i2c_read(o, addr) == IF addr >= BankSize THEN 0 ELSE Reg(o.regs, addr)

\* i2c_write(), the switch: the byte stored at addr (before the alarm mode copy).
i2c_write_byte(o, addr, value) ==
    CASE addr = REG_SECONDS \/ addr = REG_ALARM_1_SECONDS ->
           bcd_canon(BitAnd(value, MASK_SECONDS), bcd_enc(0), bcd_enc(59))
      [] addr = REG_MINUTES \/ addr = REG_ALARM_1_MINUTES \/ addr = REG_ALARM_2_MINUTES ->
           bcd_canon(BitAnd(value, MASK_MINUTES), bcd_enc(0), bcd_enc(59))
      [] addr = REG_HOURS \/ addr = REG_ALARM_1_HOURS \/ addr = REG_ALARM_2_HOURS ->
           IF BitAnd(value, BIT_HOUR_12_HOURS) # 0
           THEN BitOr(BitOr(bcd_canon(BitAnd(value, MASK_HOURS_12_HOURS),
                                      bcd_enc(1), bcd_enc(12)),
                            BIT_HOUR_12_HOURS),
                      BitAnd(value, BIT_HOUR_PM))
           ELSE bcd_canon(BitAnd(value, MASK_HOURS_24_HOURS), bcd_enc(0), bcd_enc(23))
      [] addr = REG_DAY ->
           bcd_canon(BitAnd(value, MASK_DAY), bcd_enc(1), bcd_enc(7))
      [] addr = REG_DATE ->
           bcd_canon(BitAnd(value, MASK_DATE), bcd_enc(1), bcd_enc(31))
      [] addr = REG_MONTH ->
           BitOr(bcd_canon(BitAnd(value, MASK_MONTH), bcd_enc(1), bcd_enc(12)),
                 BitAnd(value, BitOr(BitOr(BIT_MONTH_CENTURY0, BIT_MONTH_CENTURY1),
                                     BIT_MONTH_CENTURY2)))
      [] addr = REG_YEAR ->
           bcd_canon(BitAnd(value, MASK_YEAR), bcd_enc(0), bcd_enc(99))
      [] addr = REG_ALARM_1_DAY_OR_DATE \/ addr = REG_ALARM_2_DAY_OR_DATE ->
           IF BitAnd(value, BIT_ALARM_IS_DAY) # 0
           THEN BitOr(bcd_canon(BitAnd(value, MASK_DAY), bcd_enc(1), bcd_enc(7)),
                      BIT_ALARM_IS_DAY)
           ELSE bcd_canon(BitAnd(value, MASK_DATE), bcd_enc(1), bcd_enc(31))
      [] addr = REG_CTRL_1 ->
           BitOr(value, BitAnd(Reg(o.regs, addr), BIT_CTRL_1_CONV))
      [] addr = REG_CTRL_2 ->
           BitOr(BitOr(BitAnd(value,
                              BitNot(BitOr(BitOr(BitOr(BIT_CTRL_2_OSF, BIT_CTRL_2_A1F),
                                                 BIT_CTRL_2_A2F), BIT_CTRL_2_BSY))),
                       BitAnd(BitAnd(value, Reg(o.regs, addr)),
                              BitOr(BitOr(BIT_CTRL_2_OSF, BIT_CTRL_2_A1F),
                                    BIT_CTRL_2_A2F))),
                 BitAnd(value, BIT_CTRL_2_BSY))
      [] addr = REG_CTRL_3 -> BitAnd(value, BIT_CTRL_3_BB_TD)
      [] addr = REG_TEMP_MSB \/ addr = REG_TEMP_LSB -> Reg(o.regs, addr)
      [] OTHER -> value

\* Variant of i2c_write_store: the byte is stored as the host sent it.
i2c_write_store_raw(o, addr, value, stored) ==
    IF addr < BankSize THEN [o EXCEPT !.regs = SetReg(@, addr, value)] ELSE o

\* Variant of i2c_write_store: the alarm mode bit of the value is not copied.
i2c_write_store_no_mode(o, addr, value, stored) ==
    IF addr < BankSize THEN [o EXCEPT !.regs = SetReg(@, addr, stored)] ELSE o

\* Variant of i2c_write_store: without the bounds check, an address beyond the
\* bank lands on a byte of the bank.
i2c_write_store_unchecked(o, addr, value, stored) ==
    [o EXCEPT !.regs = SetReg(@, addr % BankSize, stored)]

\* i2c_write(), lines 869-874: the alarm mode bit is copied and the byte stored.
i2c_write_store(o, addr, value, stored) ==
    IF addr < BankSize
    THEN [o EXCEPT !.regs =
            SetReg(@, addr,
                   IF addr >= REG_ALARM_1_SECONDS /\ addr <= REG_ALARM_2_DAY_OR_DATE
                      /\ BitAnd(value, BIT_ALARM_MODE) # 0
                   THEN BitOr(stored, BIT_ALARM_MODE)
                   ELSE stored)]
    ELSE o

\* Variant of i2c_write_members: no write drains the tick accumulator.
i2c_write_members_keep_ticks(o, addr) ==
    [o EXCEPT !.m_wrote_date = IF addr = REG_DATE \/ addr = REG_MONTH \/ addr = REG_YEAR
                               THEN TRUE ELSE @]

\* i2c_write(), the side effects of the switch on the members.
i2c_write_members(o, addr) ==
    [o EXCEPT !.m_ticks = IF addr = REG_SECONDS \/ addr = REG_ALARM_1_SECONDS
                          THEN atomic_consume_ticks(o).obj.m_ticks ELSE @,
              !.m_wrote_date = IF addr = REG_DATE \/ addr = REG_MONTH \/ addr = REG_YEAR
                               THEN TRUE ELSE @]

\* i2c_write(): the object after the write, and the returned action flags.
i2c_write(o, addr, value) ==
    [ obj |-> i2c_write_members(
                  i2c_write_store(o, addr, value, i2c_write_byte(o, addr, value)),
                  addr),
      res |-> IF addr = REG_SECONDS THEN ACTION_RESET_TIMER
              ELSE IF addr = REG_CTRL_1 /\ BitAnd(value, BIT_CTRL_1_CONV) # 0
                   THEN ACTION_CONVERT_TEMPERATURE
                   ELSE 0 ]

-----------------------------------------------------------------------------
(* What the host sends: bytes for the registers, and set-up sequences      *)

\* The BCD byte of a number 0..99 as the host encodes it.
Bcd(n) == (n \div 10) * 16 + (n % 10)

\* The hours byte of hour h (0..23) in 12-hour format: 12h bit, PM bit, 1..12.
HostHours12(h) ==
    64 + (IF h >= 12 THEN 32 ELSE 0) + Bcd(IF h % 12 = 0 THEN 12 ELSE h % 12)

\* The month byte of month mo in year y (1900..2699): the century in bits 7, 6, 5.
HostMonth(y, mo) ==
    LET c == (y - 1900) \div 100
    IN  128 * (c % 2) + 64 * ((c \div 2) % 2) + 32 * ((c \div 4) % 2) + Bcd(mo)

\* The writes that set the clock to instant t = [y, mo, d, dow, h, mi, s].
TimeWrites(t, mode12) ==
    << << REG_YEAR, Bcd(t.y % 100) >>,
       << REG_MONTH, HostMonth(t.y, t.mo) >>,
       << REG_DATE, Bcd(t.d) >>,
       << REG_DAY, t.dow >>,
       << REG_HOURS, IF mode12 THEN HostHours12(t.h) ELSE Bcd(t.h) >>,
       << REG_MINUTES, Bcd(t.mi) >>,
       << REG_SECONDS, Bcd(t.s) >> >>

\* The object after the host has written ws[1], ws[2], ... in this order.
RECURSIVE WriteAll(_, _)
WriteAll(o, ws) ==
    IF ws = << >> THEN o
    ELSE WriteAll(i2c_write(o, ws[1][1], ws[1][2]).obj, Tail(ws))

\* The object after n calls of tick(): m_ticks++ on a uint8_t, n times.
TickN(o, n) == [o EXCEPT !.m_ticks = (@ + n) % 256]

\* A constructed clock that the host has set up with the writes ws and that
\* the main loop has committed once.
Seed(ws) == update(WriteAll(Soft323x(0), ws))

-----------------------------------------------------------------------------
(* Variables a specification does not use keep these values                *)

NoCounters ==
    /\ nticks = 0 /\ napplied = 0 /\ nwrites = 0 /\ overflowed = FALSE

NoMain == mpc = "none" /\ m_n = 0 /\ m_i = 0

NoDriver ==
    /\ i2c_status = 0 /\ i2c_addr = 0 /\ i2c_data = 0 /\ TWDR = 0 /\ nevents = 0

mainVars == << mpc, m_n, m_i >>

driverVars == << i2c_status, i2c_addr, i2c_data, TWDR, nevents >>

-----------------------------------------------------------------------------
(* SpecCal: a 12-hour clock (rtc) and a 24-hour clock (rtc2) seeded at the *)
(* same instant and stepped with the same tick()/update() sequence         *)

\* Ticks per behaviour.
MaxCalTicks == 2

CalYears ==
    { 1900, 1999, 2000, 2019, 2020, 2099, 2100, 2199, 2299, 2399, 2400, 2499,
      2599, 2698, 2699 }

\* The last second of the days at the start and at the end of every month.
CalDayEnds ==
    { [y |-> yy, mo |-> mm, d |-> dd, dow |-> ww, h |-> 23, mi |-> 59, s |-> 59] :
        yy \in CalYears, mm \in 1 .. 12, dd \in {1, 27, 28, 29, 30, 31},
        ww \in {1, 7} }

\* Every end of an hour, and a few instants inside the hour.
CalHourEnds ==
    { [y |-> 2019, mo |-> 2, d |-> 9, dow |-> 3, h |-> hh, mi |-> mm, s |-> ss] :
        hh \in 0 .. 23, mm \in {0, 9, 58, 59}, ss \in {0, 9, 58, 59} }

CalInstants ==
    { t \in CalDayEnds \cup CalHourEnds :
        t.d <= (CASE t.mo \in {4, 6, 9, 11} -> 30
                  [] t.mo = 2 -> IF (t.y % 4 = 0 /\ t.y % 100 # 0) \/ t.y % 400 = 0
                                 THEN 29 ELSE 28
                  [] OTHER -> 31) }

CalInit ==
    /\ \E t \in CalInstants :
         /\ rtc = Seed(TimeWrites(t, TRUE))
         /\ rtc2 = Seed(TimeWrites(t, FALSE))
    /\ last = "init" /\ ret = 0
    /\ NoCounters /\ NoMain /\ NoDriver

CalTick ==
    /\ nticks < MaxCalTicks
    /\ rtc' = tick(rtc)
    /\ rtc2' = tick(rtc2)
    /\ nticks' = nticks + 1
    /\ last' = "tick"
    /\ UNCHANGED << ret, napplied, nwrites, overflowed, mainVars, driverVars >>

CalUpdate ==
    /\ rtc' = update(rtc)
    /\ rtc2' = update(rtc2)
    /\ napplied' = napplied + rtc2.m_ticks
    /\ last' = "update"
    /\ UNCHANGED << ret, nticks, nwrites, overflowed, mainVars, driverVars >>

CalNext == CalTick \/ CalUpdate

SpecCal == CalInit /\ [][CalNext]_vars

\* The civil time the accessors of a register bank denote.
Civil(r) ==
    [ y |-> year(r), mo |-> month(r), d |-> date(r),
      h |-> hours(r), mi |-> minutes(r), s |-> seconds(r) ]

\* Gregorian calendar, stated on numbers.
GregLeap(y) == (y % 4 = 0 /\ y % 100 # 0) \/ y % 400 = 0

GregDays(y, mo) ==
    IF mo = 2 THEN (IF GregLeap(y) THEN 29 ELSE 28)
    ELSE IF mo \in {4, 6, 9, 11} THEN 30 ELSE 31

\* The instant one second after c.
GregSucc(c) ==
    IF c.s < 59 THEN [c EXCEPT !.s = @ + 1]
    ELSE IF c.mi < 59 THEN [c EXCEPT !.s = 0, !.mi = @ + 1]
    ELSE IF c.h < 23 THEN [c EXCEPT !.s = 0, !.mi = 0, !.h = @ + 1]
    ELSE IF c.d < GregDays(c.y, c.mo)
    THEN [c EXCEPT !.s = 0, !.mi = 0, !.h = 0, !.d = @ + 1]
    ELSE IF c.mo < 12
    THEN [c EXCEPT !.s = 0, !.mi = 0, !.h = 0, !.d = 1, !.mo = @ + 1]
    ELSE [c EXCEPT !.s = 0, !.mi = 0, !.h = 0, !.d = 1, !.mo = 1, !.y = @ + 1]

\* Both digits of a BCD byte are decimal digits.
IsBcd(b) == (b % 16) <= 9 /\ (b \div 16) <= 9

\* A valid calendar instant in 24-hour mode: BCD fields in range, the date
\* within the month.
ValidInstant24(r) ==
    /\ IsBcd(Reg(r, REG_SECONDS)) /\ seconds(r) <= 59
    /\ IsBcd(Reg(r, REG_MINUTES)) /\ minutes(r) <= 59
    /\ Reg(r, REG_HOURS) < 64 /\ IsBcd(Reg(r, REG_HOURS)) /\ hours(r) <= 23
    /\ day(r) \in 1 .. 7
    /\ IsBcd(Reg(r, REG_DATE)) /\ IsBcd(Reg(r, REG_MONTH) % 32)
    /\ IsBcd(Reg(r, REG_YEAR))
    /\ month(r) \in 1 .. 12
    /\ date(r) \in 1 .. GregDays(year(r), month(r))

\* One tick() followed by update() on the 24-hour clock.
C1_Step ==
    ( /\ last' = "update" /\ rtc2.m_ticks = 1
      /\ ValidInstant24(rtc2.regs) /\ year(rtc2.regs) < 2699 )
    => /\ Civil(rtc2'.regs) = GregSucc(Civil(rtc2.regs))
       /\ day(rtc2'.regs) =
            IF hours(rtc2.regs) = 23 /\ minutes(rtc2.regs) = 59 /\ seconds(rtc2.regs) = 59
            THEN (day(rtc2.regs) % 7) + 1
            ELSE day(rtc2.regs)
       /\ ValidInstant24(rtc2'.regs)

\* C1: in 24-hour mode, from a valid calendar instant before the year 2699,
\* tick() followed by update() makes the accessors denote the instant one
\* second later under Gregorian rules, and day() advances cyclically 1..7
\* exactly at midnight.
C1_TickUpdateIsNextSecond == [][C1_Step]_vars

\* The committed tick that brought the clock from 2400-02-29 to 2400-03-01.
C1_Witness ==
    /\ last = "update" /\ napplied = 1 /\ nticks = 1
    /\ Civil(rtc2.regs) = [y |-> 2400, mo |-> 3, d |-> 1, h |-> 0, mi |-> 0, s |-> 0]
    /\ day(rtc2.regs) = 1

\* C2: a 12-hour clock and a 24-hour clock seeded at the same instant and
\* stepped with the same tick()/update() sequence agree after every update()
\* on all seven accessors; the 12-hour clock keeps its 12h bit and its PM bit
\* is set exactly when hours() >= 12.
C2_TwelveHourClockAgrees ==
    last = "update" =>
        /\ Civil(rtc.regs) = Civil(rtc2.regs)
        /\ day(rtc.regs) = day(rtc2.regs)
        /\ BitAnd(Reg(rtc.regs, REG_HOURS), BIT_HOUR_12_HOURS) # 0
        /\ BitAnd(Reg(rtc2.regs, REG_HOURS), BIT_HOUR_12_HOURS) = 0
        /\ (BitAnd(Reg(rtc.regs, REG_HOURS), BIT_HOUR_PM) # 0) <=> (hours(rtc.regs) >= 12)

\* The committed tick that brought both clocks to noon.
C2_Witness ==
    /\ last = "update" /\ napplied = 1
    /\ hours(rtc.regs) = 12 /\ minutes(rtc.regs) = 0 /\ seconds(rtc.regs) = 0
    /\ Reg(rtc.regs, REG_HOURS) = 114

-----------------------------------------------------------------------------
(* SpecBatch: rtc collects N ticks and commits them with one update();     *)
(* rtc2 starts from the same state and runs tick(); update() N times       *)

\* tick() calls per behaviour: 0 .. 255 and the one that wraps m_ticks.
MaxBatchTicks == 256

\* The writes that program both alarms and clear the alarm flags.
AlarmWrites(a1, a2) ==
    << << REG_ALARM_1_SECONDS, a1[1] >>, << REG_ALARM_1_MINUTES, a1[2] >>,
       << REG_ALARM_1_HOURS, a1[3] >>, << REG_ALARM_1_DAY_OR_DATE, a1[4] >>,
       << REG_ALARM_2_MINUTES, a2[1] >>, << REG_ALARM_2_HOURS, a2[2] >>,
       << REG_ALARM_2_DAY_OR_DATE, a2[3] >>, << REG_CTRL_2, 0 >> >>

\* Starting states: a 24-hour clock shortly before the end of February with
\* alarm 1 on second 05 of every minute and alarm 2 every minute; a 12-hour
\* clock before the end of a century with alarms on the first second of the
\* new day; a clock whose date register was just written with the 31st in
\* February (not yet committed); the constructed clock.
BatchSeeds ==
    { Seed(TimeWrites([y |-> 2019, mo |-> 2, d |-> 28, dow |-> 4,
                       h |-> 23, mi |-> 58, s |-> 30], FALSE)
           \o AlarmWrites(<< 5, 128, 128, 128 >>, << 128, 128, 128 >>)),
      Seed(TimeWrites([y |-> 2099, mo |-> 12, d |-> 31, dow |-> 7,
                       h |-> 23, mi |-> 57, s |-> 0], TRUE)
           \o AlarmWrites(<< 0, 0, 82, 1 >>, << 0, 82, 65 >>)),
      WriteAll(Seed(TimeWrites([y |-> 2019, mo |-> 2, d |-> 9, dow |-> 3,
                                h |-> 13, mi |-> 59, s |-> 0], FALSE)),
               << << REG_DATE, 49 >> >>),
      Soft323x(0) }

BatchInit ==
    /\ rtc \in BatchSeeds
    /\ rtc2 = rtc
    /\ last = "init" /\ ret = 0
    /\ NoCounters /\ NoMain /\ NoDriver

BatchTick ==
    /\ last # "update"
    /\ nticks < MaxBatchTicks
    /\ rtc' = tick(rtc)
    /\ rtc2' = update(tick(rtc2))
    /\ nticks' = nticks + 1
    /\ overflowed' = (overflowed \/ rtc.m_ticks = 255)
    /\ last' = "tick"
    /\ UNCHANGED << ret, napplied, nwrites, mainVars, driverVars >>

BatchUpdate ==
    /\ last # "update"
    /\ rtc' = update(rtc)
    /\ napplied' = rtc.m_ticks
    /\ last' = "update"
    /\ UNCHANGED << rtc2, ret, nticks, nwrites, overflowed, mainVars, driverVars >>

BatchNext == BatchTick \/ BatchUpdate

SpecBatch == BatchInit /\ [][BatchNext]_vars

\* C3 as stated: for every N in 0..255, N ticks and one update() leave the
\* register bank as N repetitions of tick(); update() do.
C3_Original ==
    (last = "update" /\ nticks \in 0 .. 255) => rtc.regs = rtc2.regs

\* C3: for every N in 1..255, N calls of tick() followed by one update() leave
\* the whole register bank as N repetitions of tick(); update() from the same
\* state do; for N = 0 the bank is left as it was, except that a date written
\* since the last update() is clamped to the length of its month.
C3_BatchEqualsStepwise ==
    /\ (last = "update" /\ nticks \in 1 .. 255) => rtc.regs = rtc2.regs
    /\ (last = "update" /\ nticks = 0) =>
           /\ \A a \in 0 .. BankSize - 1 :
                  a # REG_DATE => Reg(rtc.regs, a) = Reg(rtc2.regs, a)
           /\ Reg(rtc.regs, REG_DATE) =
                  IF rtc2.m_wrote_date /\ date(rtc2.regs) > GregDays(year(rtc2.regs), month(rtc2.regs))
                  THEN Bcd(GregDays(year(rtc2.regs), month(rtc2.regs)))
                  ELSE Reg(rtc2.regs, REG_DATE)

\* 255 ticks committed at once: the clock has passed midnight and both alarm
\* flags were set on the way.
C3_Witness ==
    /\ last = "update" /\ nticks = 255 /\ napplied = 255
    /\ Civil(rtc.regs) = [y |-> 2019, mo |-> 3, d |-> 1, h |-> 0, mi |-> 2, s |-> 45]
    /\ Reg(rtc.regs, REG_CTRL_2) = 3

-----------------------------------------------------------------------------
(* SpecIsr: the main context runs update() statement by statement while    *)
(* the timer interrupt calls tick() between any two statements             *)

\* tick() calls per behaviour, after the ticks pending at the start.
MaxIsrTicks == 4

\* Ticks pending at the start: three more wrap the uint8_t accumulator.
IsrPending == 253

\* update() calls per behaviour.
MaxIsrUpdates == 2

IsrInit ==
    /\ rtc = TickN(Soft323x(0), IsrPending)
    /\ nticks = IsrPending
    /\ rtc2 = 0
    /\ last = "init" /\ ret = 0
    /\ napplied = 0 /\ nwrites = 0 /\ overflowed = FALSE
    /\ mpc = "idle" /\ m_n = 0 /\ m_i = 0
    /\ NoDriver

\* ISR: tick().
IsrTick ==
    /\ nticks < IsrPending + MaxIsrTicks
    /\ rtc' = tick(rtc)
    /\ nticks' = nticks + 1
    /\ overflowed' = (overflowed \/ rtc.m_ticks = 255)
    /\ last' = "tick"
    /\ UNCHANGED << rtc2, ret, napplied, nwrites, mainVars, driverVars >>

\* update(), lines 732-735: the date written by the host is canonicalised.
IsrUpdBegin ==
    /\ mpc = "idle"
    /\ nwrites < MaxIsrUpdates
    /\ rtc' = IF rtc.m_wrote_date
              THEN [rtc EXCEPT !.regs = canonicalise_date(@), !.m_wrote_date = FALSE]
              ELSE rtc
    /\ mpc' = "consume"
    /\ nwrites' = nwrites + 1
    /\ last' = "begin"
    /\ UNCHANGED << rtc2, ret, nticks, napplied, overflowed, m_n, m_i, driverVars >>

\* update(), line 738: ticks = atomic_consume_ticks(); i = 0.
IsrUpdConsume ==
    /\ mpc = "consume"
    /\ rtc' = atomic_consume_ticks(rtc).obj
    /\ m_n' = atomic_consume_ticks(rtc).ticks
    /\ m_i' = 0
    /\ mpc' = "loop"
    /\ last' = "consume"
    /\ UNCHANGED << rtc2, ret, nticks, napplied, nwrites, overflowed, driverVars >>

\* update(), lines 739-742: one iteration of the loop.
IsrUpdLoop ==
    /\ mpc = "loop" /\ m_i < m_n
    /\ rtc' = [rtc EXCEPT !.regs = apply_tick(@)]
    /\ m_i' = m_i + 1
    /\ napplied' = napplied + 1
    /\ last' = "loop"
    /\ UNCHANGED << rtc2, ret, nticks, nwrites, overflowed, mpc, m_n, driverVars >>

\* update(), line 739: the loop condition fails, update() returns.
IsrUpdReturn ==
    /\ mpc = "loop" /\ m_i >= m_n
    /\ mpc' = "idle"
    /\ last' = "return"
    /\ UNCHANGED << rtc, rtc2, ret, nticks, napplied, nwrites, overflowed, m_n, m_i, driverVars >>

IsrNext == IsrTick \/ IsrUpdBegin \/ IsrUpdConsume \/ IsrUpdLoop \/ IsrUpdReturn

SpecIsr == IsrInit /\ [][IsrNext]_vars

\* Seconds since 2019-01-01 00:00:00 within the first day.
ElapsedSeconds(r) == 3600 * hours(r) + 60 * minutes(r) + seconds(r)

\* C4: under every interleaving of tick() with update(), while at most 255
\* ticks are pending, the one-second advances applied by update() plus the
\* ticks still pending (in m_ticks, or consumed by the running update() and
\* not yet applied) equal the number of tick() calls, and the clock has
\* advanced by exactly the applied seconds.
C4_NoTickLostOrDoubled ==
    ~overflowed =>
        /\ napplied + rtc.m_ticks + (IF mpc = "loop" THEN m_n - m_i ELSE 0) = nticks
        /\ ElapsedSeconds(rtc.regs) = napplied

\* A tick arrived while update() was applying the ticks it had consumed, and
\* the next update() has applied it.
C4_Witness ==
    /\ mpc = "idle" /\ nwrites = 2 /\ ~overflowed
    /\ nticks = 257 /\ napplied = 257 /\ rtc.m_ticks = 0

-----------------------------------------------------------------------------
(* SpecAlarm: clocks with programmed alarms, ticked and committed, while   *)
(* the host clears the alarm flags                                         *)

\* tick() calls per behaviour.
MaxAlarmTicks == 3

\* Host writes to control 2 per behaviour.
MaxAlarmClears == 2

\* The instant the alarm clocks are set to: day of week 3, the 9th,
\* 13:58:58; two ticks later it is 13:59:00.
AlarmStart == [y |-> 2019, mo |-> 2, d |-> 9, dow |-> 3, h |-> 13, mi |-> 58, s |-> 58]

\* Alarm 1 settings <<seconds, minutes, hours, day/date>>: for each field a
\* byte that matches 13:59:00 on day 3 / the 9th, the masked byte (0x80 set)
\* and a byte that does not match.
Alarm1Configs24 ==
    { << ss, mm, hh, dd >> :
        ss \in {0, 128, 89}, mm \in {89, 217, 0}, hh \in {19, 147, 20},
        dd \in {9, 67, 137, 16, 68} }

\* Alarm 2 settings <<minutes, hours, day/date>>.
Alarm2Configs24 ==
    { << mm, hh, dd >> :
        mm \in {89, 217, 0}, hh \in {19, 147, 20}, dd \in {9, 67, 137, 16, 68} }

\* In 12-hour mode 1 PM is 0x61; the alarm hours 0x61 (1 PM), 0x41 (1 AM) and
\* 0x13 (13 in 24-hour format).  The last seed is the 24-hour clock with both
\* alarms at 1 PM in 12-hour format.
AlarmHours12 == { 97, 65, 19 }

AlarmSeeds ==
    { Seed(TimeWrites(AlarmStart, FALSE) \o AlarmWrites(a1, << 128, 128, 128 >>)) :
        a1 \in Alarm1Configs24 }
    \cup
    { Seed(TimeWrites(AlarmStart, FALSE) \o AlarmWrites(<< 128, 128, 128, 128 >>, a2)) :
        a2 \in Alarm2Configs24 }
    \cup
    { Seed(TimeWrites(AlarmStart, TRUE)
           \o AlarmWrites(<< 0, 89, hh, 9 >>, << 89, hh, 67 >>)) :
        hh \in AlarmHours12 }
    \cup
    { Seed(TimeWrites(AlarmStart, FALSE)
           \o AlarmWrites(<< 0, 89, 97, 9 >>, << 89, 97, 67 >>)) }

AlarmInit ==
    /\ rtc \in AlarmSeeds
    /\ rtc2 = 0
    /\ last = "init" /\ ret = 0
    /\ NoCounters /\ NoMain /\ NoDriver

AlarmTick ==
    /\ nticks < MaxAlarmTicks
    /\ rtc' = tick(rtc)
    /\ nticks' = nticks + 1
    /\ last' = "tick"
    /\ UNCHANGED << rtc2, ret, napplied, nwrites, overflowed, mainVars, driverVars >>

AlarmUpdate ==
    /\ rtc' = update(rtc)
    /\ napplied' = napplied + rtc.m_ticks
    /\ last' = "update"
    /\ UNCHANGED << rtc2, ret, nticks, nwrites, overflowed, mainVars, driverVars >>

\* The host writes v to control 2: a 0 bit clears the alarm flag.
AlarmClear ==
    /\ nwrites < MaxAlarmClears
    /\ \E v \in {0, 1, 2} :
         /\ rtc' = i2c_write(rtc, REG_CTRL_2, v).obj
         /\ ret' = i2c_write(rtc, REG_CTRL_2, v).res
    /\ nwrites' = nwrites + 1
    /\ last' = "clear"
    /\ UNCHANGED << rtc2, nticks, napplied, overflowed, mainVars, driverVars >>

AlarmNext == AlarmTick \/ AlarmUpdate \/ AlarmClear

SpecAlarm == AlarmInit /\ [][AlarmNext]_vars

\* The alarm flags of a register bank.
A1F(r) == Reg(r, REG_CTRL_2) % 2

A2F(r) == (Reg(r, REG_CTRL_2) \div 2) % 2

\* Every alarm-1 field whose MSB is clear equals the time field: seconds,
\* minutes, hours (bits 0..6), and day of week or date as bit 6 selects.
A1Match(r) ==
    /\ Reg(r, REG_ALARM_1_SECONDS) < 128
         => Reg(r, REG_ALARM_1_SECONDS) = Reg(r, REG_SECONDS) % 128
    /\ Reg(r, REG_ALARM_1_MINUTES) < 128
         => Reg(r, REG_ALARM_1_MINUTES) = Reg(r, REG_MINUTES) % 128
    /\ Reg(r, REG_ALARM_1_HOURS) < 128
         => Reg(r, REG_ALARM_1_HOURS) = Reg(r, REG_HOURS) % 128
    /\ Reg(r, REG_ALARM_1_DAY_OR_DATE) < 128
         => IF Reg(r, REG_ALARM_1_DAY_OR_DATE) >= 64
            THEN Reg(r, REG_ALARM_1_DAY_OR_DATE) % 8 = Reg(r, REG_DAY) % 8
            ELSE Reg(r, REG_ALARM_1_DAY_OR_DATE) = Reg(r, REG_DATE) % 64

\* One step of SpecAlarm, seen from alarm 1.
C5_Step ==
    /\ (last' = "update" /\ rtc.m_ticks = 1 /\ A1F(rtc.regs) = 0)
         => (A1F(rtc'.regs) = 1 <=> A1Match(rtc'.regs))
    /\ (last' = "update" /\ rtc.m_ticks = 0) => A1F(rtc'.regs) = A1F(rtc.regs)
    /\ (last' = "tick") => rtc'.regs = rtc.regs

\* C5: a tick applied by update() while A1F is 0 sets A1F exactly if, after the
\* tick's time advance, every alarm-1 field whose MSB is clear equals its time
\* field (day of week or date as bit 6 of the day/date register selects); this
\* also holds after the host has cleared A1F, and nothing but an applied tick
\* sets the flag.
C5_Alarm1FiresExactlyOnMatch == [][C5_Step]_vars

\* Alarm 1 with four unmasked fields in day-of-week mode has fired at 13:59:00.
C5_Witness ==
    /\ last = "update" /\ nticks = 2 /\ napplied = 2 /\ A1F(rtc.regs) = 1
    /\ Reg(rtc.regs, REG_ALARM_1_SECONDS) = 0 /\ Reg(rtc.regs, REG_ALARM_1_MINUTES) = 89
    /\ Reg(rtc.regs, REG_ALARM_1_HOURS) = 19 /\ Reg(rtc.regs, REG_ALARM_1_DAY_OR_DATE) = 67
    /\ hours(rtc.regs) = 13 /\ minutes(rtc.regs) = 59 /\ seconds(rtc.regs) = 0

\* One step of SpecAlarm, seen from alarm 2.
C6_Step ==
    (last' = "update" /\ rtc.m_ticks = 1 /\ A2F(rtc.regs) = 0)
      => /\ A2F(rtc'.regs) = 1 => Reg(rtc'.regs, REG_SECONDS) = 0
         /\ ( /\ Reg(rtc.regs, REG_ALARM_2_MINUTES) >= 128
              /\ Reg(rtc.regs, REG_ALARM_2_HOURS) >= 128
              /\ Reg(rtc.regs, REG_ALARM_2_DAY_OR_DATE) >= 128 )
              => (A2F(rtc'.regs) = 1 <=> Reg(rtc'.regs, REG_SECONDS) = 0)

\* C6: a tick sets A2F only if the seconds register is 00 after the tick's
\* advance; with the three alarm-2 fields masked and A2F cleared, A2F is set
\* on exactly the ticks that bring the seconds to 00.
C6_Alarm2FiresOnSecondZero == [][C6_Step]_vars

\* The every-minute alarm 2 has fired on the tick to 13:59:00.
C6_Witness ==
    /\ last = "update" /\ nticks = 2 /\ napplied = 2 /\ A2F(rtc.regs) = 1
    /\ Reg(rtc.regs, REG_ALARM_2_MINUTES) >= 128
    /\ Reg(rtc.regs, REG_ALARM_2_HOURS) >= 128
    /\ Reg(rtc.regs, REG_ALARM_2_DAY_OR_DATE) >= 128
    /\ minutes(rtc.regs) = 59 /\ seconds(rtc.regs) = 0

-----------------------------------------------------------------------------
(* Spec: the public interface of Soft323x, every operation callable at any *)
(* time; last = [op, addr, value] records the call of the last step        *)

\* tick() calls per behaviour.
MaxTicks == 2

\* i2c_write() calls per behaviour.
MaxWrites == 1

\* Addresses the host uses: every register, the SRAM, and past the end.
ApiAddrs == 0 .. BankSize \cup {255}

\* Addresses the host reads: the first register, control 2, and past the end.
ApiReadAddrs == {REG_SECONDS, REG_CTRL_2, BankSize}

\* Bytes the host writes.
ApiValues == {0, 1, 2, 255}

\* The constructed clock (its SRAM holding 0x00 or 0xAA bytes of the storage
\* it was built in), and a clock at 13:59:58 with both alarms fully masked
\* (alarm 1 every second, alarm 2 every minute) and the flags cleared.
ApiSeeds ==
    { Soft323x(0), Soft323x(170),
      Seed(TimeWrites([y |-> 2019, mo |-> 2, d |-> 9, dow |-> 3,
                       h |-> 13, mi |-> 59, s |-> 58], FALSE)
           \o AlarmWrites(<< 128, 128, 128, 128 >>, << 128, 128, 128 >>)) }

Call(op, addr, value) == [op |-> op, addr |-> addr, value |-> value]

ApiInit ==
    /\ rtc \in ApiSeeds
    /\ rtc2 = 0
    /\ last = Call("init", 0, 0) /\ ret = 0
    /\ NoCounters /\ NoMain /\ NoDriver

ApiTick ==
    /\ nticks < MaxTicks
    /\ rtc' = tick(rtc)
    /\ nticks' = nticks + 1
    /\ last' = Call("tick", 0, 0)
    /\ UNCHANGED << rtc2, ret, napplied, nwrites, overflowed, mainVars, driverVars >>

ApiUpdate ==
    /\ rtc' = update(rtc)
    /\ last' = Call("update", 0, 0)
    /\ UNCHANGED << rtc2, ret, nticks, napplied, nwrites, overflowed,
                    mainVars, driverVars >>

ApiRead ==
    \E a \in ApiReadAddrs :
        /\ ret' = i2c_read(rtc, a)
        /\ last' = Call("read", a, 0)
        /\ UNCHANGED << rtc, rtc2, nticks, napplied, nwrites, overflowed,
                        mainVars, driverVars >>

ApiWrite ==
    /\ nwrites < MaxWrites
    /\ \E a \in ApiAddrs, v \in ApiValues :
         /\ rtc' = i2c_write(rtc, a, v).obj
         /\ ret' = i2c_write(rtc, a, v).res
         /\ last' = Call("write", a, v)
    /\ nwrites' = nwrites + 1
    /\ UNCHANGED << rtc2, nticks, napplied, overflowed, mainVars, driverVars >>

ApiReset ==
    /\ rtc' = reset(rtc)
    /\ last' = Call("reset", 0, 0)
    /\ UNCHANGED << rtc2, ret, nticks, napplied, nwrites, overflowed,
                    mainVars, driverVars >>

ApiSetOsf ==
    /\ rtc' = set_oscillator_stop_flag(rtc)
    /\ last' = Call("set_oscillator_stop_flag", 0, 0)
    /\ UNCHANGED << rtc2, ret, nticks, napplied, nwrites, overflowed,
                    mainVars, driverVars >>

Next == ApiTick \/ ApiUpdate \/ ApiRead \/ ApiWrite \/ ApiReset \/ ApiSetOsf

Spec == ApiInit /\ [][Next]_vars

\* Bit b (1: A1F, 2: A2F) of control 2.
AlarmFlag(r, b) == (Reg(r, REG_CTRL_2) \div b) % 2

\* A step through tick(), update(), or i2c_write() to an address other than
\* 0x0F keeps a set alarm flag set.
C7_Step ==
    \A b \in {1, 2} :
        ( /\ AlarmFlag(rtc.regs, b) = 1
          /\ \/ last'.op \in {"tick", "update"}
             \/ (last'.op = "write" /\ last'.addr # REG_CTRL_2) )
        => AlarmFlag(rtc'.regs, b) = 1

\* C7: once A1F (or A2F) is 1 it stays 1 through tick(), update() and every
\* i2c_write to an address other than 0x0F.
C7_AlarmFlagsSticky == [][C7_Step]_vars

\* Both flags are set and have survived a write to control 1.
C7_Witness ==
    /\ last.op = "write" /\ last.addr = REG_CTRL_1
    /\ AlarmFlag(rtc.regs, 1) = 1 /\ AlarmFlag(rtc.regs, 2) = 1

\* An alarm flag rises only in update(); it falls only in i2c_write(0x0F, v)
\* with the flag's bit of v clear.
C8_OriginalStep ==
    \A b \in {1, 2} :
        /\ (AlarmFlag(rtc.regs, b) = 0 /\ AlarmFlag(rtc'.regs, b) = 1)
             => last'.op = "update"
        /\ (AlarmFlag(rtc.regs, b) = 1 /\ AlarmFlag(rtc'.regs, b) = 0)
             => ( /\ last'.op = "write" /\ last'.addr = REG_CTRL_2
                  /\ (last'.value \div b) % 2 = 0 )

\* C8 as stated: over all public operations the alarm flags change from 0 to
\* 1 only inside update() and from 1 to 0 only through i2c_write(0x0F, v)
\* with the corresponding bit of v equal to 0.
C8_Original == [][C8_OriginalStep]_vars

\* As C8_OriginalStep, with reset() as the second way for a flag to fall.
C8_Step ==
    \A b \in {1, 2} :
        /\ (AlarmFlag(rtc.regs, b) = 0 /\ AlarmFlag(rtc'.regs, b) = 1)
             => last'.op = "update"
        /\ (AlarmFlag(rtc.regs, b) = 1 /\ AlarmFlag(rtc'.regs, b) = 0)
             => \/ last'.op = "reset"
                \/ ( /\ last'.op = "write" /\ last'.addr = REG_CTRL_2
                     /\ (last'.value \div b) % 2 = 0 )

\* C8: over all public operations the alarm flags change from 0 to 1 only
\* inside update(), and from 1 to 0 only through i2c_write(0x0F, v) with the
\* corresponding bit of v equal to 0 or through reset().
C8_AlarmFlagChanges == [][C8_Step]_vars

\* The host has written 0x02 to control 2 with both flags set: A1F fell, A2F
\* stayed.
C8_Witness ==
    /\ last.op = "write" /\ last.addr = REG_CTRL_2 /\ last.value = 2
    /\ AlarmFlag(rtc.regs, 1) = 0 /\ AlarmFlag(rtc.regs, 2) = 1

-----------------------------------------------------------------------------
(* SpecFw: the ATmega168 example firmware. The main loop runs with          *)
(* interrupts enabled, so the TWI interrupt and the timer interrupt are     *)
(* served between any two of its statements; an interrupt handler runs to   *)
(* its end                                                                  *)

I2C_IDLE == 0
I2C_START == 1
I2C_START_OK == 2
I2C_HAS_ADDR == 3
I2C_SEND_READY == 4
I2C_SEND_BYTE == 5
I2C_SEND_BYTE_OK == 6
I2C_RECV_BYTE == 7
I2C_RECV_BYTE_OK == 8
I2C_ERR == 255

\* Timer interrupts per behaviour.
MaxFwTicks == 2

\* TWI interrupts per behaviour.
MaxFwEvents == 5

\* TW_STATUS values the TWI hardware reports ("TW_NO_INFO" stands for every
\* value the switch leaves to its default branch).
TwEvents ==
    { "TW_SR_SLA_ACK", "TW_SR_DATA_ACK", "TW_SR_STOP", "TW_ST_SLA_ACK",
      "TW_ST_DATA_ACK", "TW_SR_DATA_NACK", "TW_ST_DATA_NACK", "TW_ST_LAST_DATA",
      "TW_BUS_ERROR", "TW_NO_INFO" }

\* Bytes the bus master sends (register pointers and data).
FwBytes == {0, 15, 255}

\* Variant of i2c_next_addr: the wrap to 0x00 commits nothing.
i2c_next_addr_no_commit(o, addr) ==
    [ obj |-> o, addr |-> (addr + 1) % 256 ]

\* rtc.i2c_next_addr(addr): the cursor advances by one and wraps modulo 256;
\* on the wrap to 0x00 the pending ticks are committed.
i2c_next_addr(o, addr) ==
    [ obj |-> IF addr = 255 THEN update(o) ELSE o,
      addr |-> (addr + 1) % 256 ]

\* Variant of TwiStatus: a bus error is left to the default branch.
TwiStatus_bus_error_ignored(st, tw) ==
    CASE tw = "TW_SR_SLA_ACK" -> I2C_START
      [] tw = "TW_SR_DATA_ACK" ->
           IF st = I2C_START_OK THEN I2C_HAS_ADDR
           ELSE IF st = I2C_HAS_ADDR \/ st = I2C_RECV_BYTE_OK THEN I2C_RECV_BYTE
           ELSE I2C_ERR
      [] tw = "TW_SR_STOP" ->
           IF st = I2C_HAS_ADDR THEN I2C_SEND_READY
           ELSE IF st = I2C_RECV_BYTE_OK THEN I2C_IDLE
           ELSE I2C_ERR
      [] tw = "TW_ST_SLA_ACK" \/ tw = "TW_ST_DATA_ACK" ->
           IF st = I2C_SEND_READY \/ st = I2C_SEND_BYTE_OK THEN I2C_SEND_BYTE
           ELSE I2C_ERR
      [] tw \in {"TW_SR_DATA_NACK", "TW_ST_DATA_NACK", "TW_ST_LAST_DATA"} -> I2C_IDLE
      [] OTHER -> st

\* ISR(TWI_vect), first switch: i2c_status after the bus event tw.
TwiStatus(st, tw) ==
    CASE tw = "TW_SR_SLA_ACK" -> I2C_START
      [] tw = "TW_SR_DATA_ACK" ->
           IF st = I2C_START_OK THEN I2C_HAS_ADDR
           ELSE IF st = I2C_HAS_ADDR \/ st = I2C_RECV_BYTE_OK THEN I2C_RECV_BYTE
           ELSE I2C_ERR
      [] tw = "TW_SR_STOP" ->
           IF st = I2C_HAS_ADDR THEN I2C_SEND_READY
           ELSE IF st = I2C_RECV_BYTE_OK THEN I2C_IDLE
           ELSE I2C_ERR
      [] tw = "TW_ST_SLA_ACK" \/ tw = "TW_ST_DATA_ACK" ->
           IF st = I2C_SEND_READY \/ st = I2C_SEND_BYTE_OK THEN I2C_SEND_BYTE
           ELSE I2C_ERR
      [] tw \in {"TW_SR_DATA_NACK", "TW_ST_DATA_NACK", "TW_ST_LAST_DATA", "TW_BUS_ERROR"} ->
           I2C_IDLE
      [] OTHER -> st

\* ISR(TWI_vect), first switch: i2c_addr after the bus event tw (twdr: TWDR).
TwiAddr(st, tw, addr, twdr) ==
    IF tw = "TW_SR_SLA_ACK" THEN 0
    ELSE IF tw = "TW_SR_DATA_ACK" /\ st = I2C_START_OK THEN twdr
    ELSE addr

\* ISR(TWI_vect), first switch: i2c_data after the bus event tw.
TwiData(st, tw, data, twdr) ==
    IF tw = "TW_SR_DATA_ACK" /\ st # I2C_START_OK
       /\ (st = I2C_HAS_ADDR \/ st = I2C_RECV_BYTE_OK)
    THEN twdr
    ELSE data

\* Variant of TwiHandle: the START case without the call of rtc.update().
TwiHandle_no_update(o, st, addr, twdr) ==
    CASE st = I2C_START ->
           [ rtc |-> o, status |-> I2C_START_OK, addr |-> addr,
             twdr |-> twdr, applied |-> 0, what |-> "isr_update" ]
      [] st = I2C_SEND_BYTE ->
           [ rtc |-> i2c_next_addr(o, addr).obj, status |-> I2C_SEND_BYTE_OK,
             addr |-> i2c_next_addr(o, addr).addr, twdr |-> i2c_read(o, addr),
             applied |-> IF addr = 255 THEN o.m_ticks ELSE 0, what |-> "isr_read" ]
      [] OTHER ->
           [ rtc |-> o, status |-> st, addr |-> addr, twdr |-> twdr,
             applied |-> 0, what |-> "isr_none" ]

\* ISR(TWI_vect), second switch, on the state the first switch has left:
\* the new object, driver state, TWDR, the seconds applied, and what was done.
TwiHandle(o, st, addr, twdr) ==
    CASE st = I2C_START ->
           [ rtc |-> update(o), status |-> I2C_START_OK, addr |-> addr,
             twdr |-> twdr, applied |-> o.m_ticks, what |-> "isr_update" ]
      [] st = I2C_SEND_BYTE ->
           [ rtc |-> i2c_next_addr(o, addr).obj, status |-> I2C_SEND_BYTE_OK,
             addr |-> i2c_next_addr(o, addr).addr, twdr |-> i2c_read(o, addr),
             applied |-> IF addr = 255 THEN o.m_ticks ELSE 0, what |-> "isr_read" ]
      [] OTHER ->
           [ rtc |-> o, status |-> st, addr |-> addr, twdr |-> twdr,
             applied |-> 0, what |-> "isr_none" ]

\* ISR(TWI_vect), second switch, case I2C_RECV_BYTE: o is the object after
\* rtc.i2c_write(i2c_addr, i2c_data).
TwiHandleWrite(o, addr, twdr) ==
    [ rtc |-> i2c_next_addr(o, addr).obj, status |-> I2C_RECV_BYTE_OK,
      addr |-> i2c_next_addr(o, addr).addr, twdr |-> twdr,
      applied |-> IF addr = 255 THEN o.m_ticks ELSE 0, what |-> "isr_write" ]

\* ISR(TWI_vect), both switches: the bus event tw with the byte d in TWDR.
TwiIsr(o, st, addr, data, tw, d) ==
    IF TwiStatus(st, tw) = I2C_RECV_BYTE
    THEN TwiHandleWrite(i2c_write(o, TwiAddr(st, tw, addr, d), TwiData(st, tw, data, d)).obj,
                        TwiAddr(st, tw, addr, d), d)
    ELSE TwiHandle(o, TwiStatus(st, tw), TwiAddr(st, tw, addr, d), d)

FwInit ==
    /\ rtc = Soft323x(0)
    /\ rtc2 = 0
    /\ last = "init" /\ ret = 0
    /\ NoCounters
    /\ mpc = "sleep" /\ m_n = 0 /\ m_i = 0
    /\ i2c_status = I2C_IDLE /\ i2c_addr = 0 /\ i2c_data = 0 /\ TWDR = 0
    /\ nevents = 0

\* ISR(TIMER1_COMPA_vect)
FwTimerIsr ==
    /\ nticks < MaxFwTicks
    /\ rtc' = tick(rtc)
    /\ nticks' = nticks + 1
    /\ overflowed' = (overflowed \/ rtc.m_ticks = 255)
    /\ last' = "tick"
    /\ UNCHANGED << rtc2, ret, napplied, nwrites, mainVars, driverVars >>

\* ISR(TWI_vect): the hardware reports tw; for a received byte TWDR holds d.
\* A STOP (or repeated START) is remembered in last as "isr_stop", a bus error
\* as "isr_bus_error", the number of seconds the handler applied in ret.
FwTwiIsr ==
    /\ nevents < MaxFwEvents
    /\ \E tw \in TwEvents :
         \E d \in (IF tw = "TW_SR_DATA_ACK" THEN FwBytes ELSE {TWDR}) :
            \E res \in {TwiIsr(rtc, i2c_status, i2c_addr, i2c_data, tw, d)} :
                /\ rtc' = res.rtc
                /\ i2c_status' = res.status
                /\ i2c_addr' = res.addr
                /\ TWDR' = res.twdr
                /\ napplied' = napplied + res.applied
                /\ ret' = res.applied
                /\ last' = IF tw = "TW_SR_STOP" THEN "isr_stop"
                            ELSE IF tw = "TW_BUS_ERROR" THEN "isr_bus_error"
                            ELSE res.what
                /\ i2c_data' = TwiData(i2c_status, tw, i2c_data, d)
    /\ nevents' = nevents + 1
    /\ UNCHANGED << rtc2, nticks, nwrites, overflowed, mainVars >>

\* main(), lines 434: the bus is idle (or in error), update() will be called.
FwMainCheck ==
    /\ mpc = "sleep"
    /\ i2c_status = I2C_IDLE \/ i2c_status = I2C_ERR
    /\ mpc' = "begin"
    /\ last' = "main_check"
    /\ UNCHANGED << rtc, rtc2, ret, nticks, napplied, nwrites, overflowed,
                    m_n, m_i, driverVars >>

\* main(), line 435, update() lines 732-735.
FwMainUpdBegin ==
    /\ mpc = "begin"
    /\ rtc' = IF rtc.m_wrote_date
              THEN [rtc EXCEPT !.regs = canonicalise_date(@), !.m_wrote_date = FALSE]
              ELSE rtc
    /\ mpc' = "consume"
    /\ last' = "main_begin"
    /\ UNCHANGED << rtc2, ret, nticks, napplied, nwrites, overflowed,
                    m_n, m_i, driverVars >>

\* update(), line 738.
FwMainUpdConsume ==
    /\ mpc = "consume"
    /\ rtc' = atomic_consume_ticks(rtc).obj
    /\ m_n' = atomic_consume_ticks(rtc).ticks
    /\ m_i' = 0
    /\ mpc' = "loop"
    /\ last' = "main_consume"
    /\ UNCHANGED << rtc2, ret, nticks, napplied, nwrites, overflowed, driverVars >>

\* update(), lines 739-742: one iteration of the loop.
FwMainUpdLoop ==
    /\ mpc = "loop" /\ m_i < m_n
    /\ rtc' = [rtc EXCEPT !.regs = apply_tick(@)]
    /\ m_i' = m_i + 1
    /\ napplied' = napplied + 1
    /\ last' = "main_loop"
    /\ UNCHANGED << rtc2, ret, nticks, nwrites, overflowed, mpc, m_n, driverVars >>

\* update() returns, the main loop goes back to sleep_mode().
FwMainUpdReturn ==
    /\ mpc = "loop" /\ m_i >= m_n
    /\ mpc' = "sleep"
    /\ last' = "main_return"
    /\ UNCHANGED << rtc, rtc2, ret, nticks, napplied, nwrites, overflowed,
                    m_n, m_i, driverVars >>

FwNext ==
    \/ FwTimerIsr \/ FwTwiIsr
    \/ FwMainCheck \/ FwMainUpdBegin \/ FwMainUpdConsume \/ FwMainUpdLoop
    \/ FwMainUpdReturn

SpecFw == FwInit /\ [][FwNext]_vars

\* C9: in the example firmware the bus ISR never runs rtc.update() or
\* rtc.i2c_write() while a main-loop update() is in progress (between its
\* first statement and its return).
C9_NoOverlap ==
    ~ ( /\ mpc \in {"consume", "loop"}
        /\ last \in {"isr_update", "isr_write"} )

\* A bus transaction is in progress.
InTransaction(st) == st # I2C_IDLE /\ st # I2C_ERR

\* The time registers 0x00..0x06.
TimeRegs(r) == SubSeq(r, REG_SECONDS + 1, REG_YEAR + 1)

\* A step inside a bus transaction that is neither the update() at START, nor
\* a register write of the host, nor the wrap of the cursor.
C10_Step ==
    ( /\ InTransaction(i2c_status) /\ InTransaction(i2c_status')
      /\ last' # "isr_update" /\ last' # "isr_write"
      /\ ~(last' = "isr_read" /\ i2c_addr = 255) )
    => TimeRegs(rtc'.regs) = TimeRegs(rtc.regs)

\* C10: in the example firmware, from the update() at START until the bus
\* transaction ends and while the cursor has not wrapped, the time registers
\* 0x00..0x06 do not change, under every interleaving of the timer ISR, the
\* bus ISR and the main loop.
C10_SnapshotDuringTransaction == [][C10_Step]_vars

\* C11: in the example firmware, after every finished host transaction (the
\* bus has reported STOP), including one that only set the register pointer,
\* the driver state lets the main loop's idle poll call update()
\* (i2c_status is I2C_IDLE or I2C_ERR).
C11_CommitAllowedAfterStop ==
    (last = "isr_stop") => (i2c_status = I2C_IDLE \/ i2c_status = I2C_ERR)

\* A TWI interrupt that handles START-for-write runs update() to its end
\* before it returns (the accumulator is drained into the registers and the
\* driver is in I2C_START_OK); the driver never rests in I2C_START; and a
\* data byte is written or returned only in driver states that follow
\* I2C_START_OK.
C12_Step ==
    /\ i2c_status' # I2C_START
    /\ (i2c_status # I2C_START_OK /\ i2c_status' = I2C_START_OK) => (last' = "isr_update")
    /\ (last' = "isr_update") => (i2c_status' = I2C_START_OK)
    /\ (last' = "isr_update") =>
          /\ rtc' = update(rtc)
          /\ rtc'.m_ticks = 0
          /\ napplied' = napplied + rtc.m_ticks
    /\ (last' = "isr_write") => i2c_status \in {I2C_HAS_ADDR, I2C_RECV_BYTE_OK}
    /\ (last' = "isr_read") => i2c_status \in {I2C_SEND_READY, I2C_SEND_BYTE_OK}

\* C12: in the example firmware, on START-for-write (TW_SR_SLA_ACK) the
\* driver calls update() before any data byte of the transaction is written
\* with i2c_write or returned with i2c_read, so every tick pending in the
\* accumulator at START is in the registers the transaction sees.
C12_UpdateAtStart == [][C12_Step]_vars

\* The START of a transaction found one tick pending and committed it.
C12_Witness ==
    /\ last = "isr_update" /\ i2c_status = I2C_START_OK
    /\ nticks = 1 /\ napplied = 1 /\ rtc.m_ticks = 0
    /\ seconds(rtc.regs) = 1

\* The read of the last address (cursor 0xFF) returns that byte, moves the
\* cursor to 0x00 and commits the pending ticks; the read at cursor 0x00
\* returns the seconds register as it is then, and commits nothing.
C13_Step ==
    /\ (last' = "isr_read" /\ i2c_addr = 255) =>
          /\ TWDR' = i2c_read(rtc, 255)
          /\ i2c_addr' = 0
          /\ rtc' = update(rtc)
          /\ rtc'.m_ticks = 0
          /\ napplied' = napplied + rtc.m_ticks
    /\ (last' = "isr_read" /\ i2c_addr = 0) =>
          /\ TWDR' = Reg(rtc.regs, REG_SECONDS)
          /\ i2c_addr' = 1
          /\ rtc' = rtc

\* C13: when the cursor wraps from the last address back to 0x00 during a
\* sequential read, update() is performed before the byte at 0x00 is
\* returned to the host.
C13_CommitOnWrap == [][C13_Step]_vars

\* The cursor has wrapped from 0xFF to 0x00 in a read, and the commit of
\* that interrupt has applied a tick that arrived during the transaction.
C13_Witness ==
    /\ last = "isr_read" /\ i2c_addr = 0 /\ i2c_status = I2C_SEND_BYTE_OK
    /\ ret = 1 /\ nticks = 1 /\ napplied = 1
    /\ rtc.m_ticks = 0 /\ seconds(rtc.regs) = 1

-----------------------------------------------------------------------------
(* SpecHost: the host writes any byte to any address of a running clock,    *)
(* with tick(), update() and reset() in any order around the write          *)

\* tick() calls per behaviour.
MaxHostTicks == 1

\* i2c_write() calls per behaviour.
MaxHostWrites == 1

\* Addresses the host writes: every register, the SRAM, and past the end.
HostAddrs == 0 .. BankSize \cup {255}

\* Bytes the host writes: every uint8_t.
HostValues == 0 .. 255

\* The constructed clock; a clock at 23:59:59 on 31 January 2019 with both
\* alarms fully masked and the flags cleared; and the constructed clock after
\* the host has written 0xFF to control 1 and control 2, 0xA5 to the aging
\* offset and 0x5A, 0xC3 to the SRAM.
HostSeeds ==
    { Soft323x(0),
      Seed(TimeWrites([y |-> 2019, mo |-> 1, d |-> 31, dow |-> 4,
                       h |-> 23, mi |-> 59, s |-> 59], FALSE)
           \o AlarmWrites(<< 128, 128, 128, 128 >>, << 128, 128, 128 >>)),
      Seed(<< << REG_CTRL_1, 255 >>, << REG_CTRL_2, 255 >>,
              << REG_AGING_OFFSET, 165 >>,
              << REG_SRAM, 90 >>, << REG_SRAM + 1, 195 >> >>) }

HostInit ==
    /\ rtc \in HostSeeds
    /\ rtc2 = 0
    /\ last = Call("init", 0, 0) /\ ret = 0
    /\ NoCounters /\ NoMain /\ NoDriver

HostTick ==
    /\ nticks < MaxHostTicks
    /\ rtc' = tick(rtc)
    /\ nticks' = nticks + 1
    /\ last' = Call("tick", 0, 0)
    /\ UNCHANGED << rtc2, ret, napplied, nwrites, overflowed, mainVars, driverVars >>

HostUpdate ==
    /\ rtc' = update(rtc)
    /\ napplied' = napplied + rtc.m_ticks
    /\ last' = Call("update", 0, 0)
    /\ UNCHANGED << rtc2, ret, nticks, nwrites, overflowed, mainVars, driverVars >>

HostWrite ==
    /\ nwrites < MaxHostWrites
    /\ \E a \in HostAddrs, v \in HostValues :
         \E w \in {i2c_write(rtc, a, v)} :
            /\ rtc' = w.obj
            /\ ret' = w.res
            /\ last' = Call("write", a, v)
    /\ nwrites' = nwrites + 1
    /\ UNCHANGED << rtc2, nticks, napplied, overflowed, mainVars, driverVars >>

HostReset ==
    /\ rtc' = reset(rtc)
    /\ last' = Call("reset", 0, 0)
    /\ UNCHANGED << rtc2, ret, nticks, napplied, nwrites, overflowed,
                    mainVars, driverVars >>

HostNext == HostTick \/ HostUpdate \/ HostWrite \/ HostReset

SpecHost == HostInit /\ [][HostNext]_vars

\* The byte x clamped to lo..hi, bytes compared as numbers (the upper bound
\* is tested first).
ByteClamp(x, lo, hi) == IF x > hi THEN hi ELSE IF x < lo THEN lo ELSE x

\* Bit k (k a power of two) of the byte x.
Bit(x, k) == (x \div k) % 2

\* A write of v to 0x00 stores v mod 128 clamped to 0x00..0x59, which reads
\* as seconds() in 0..59, empties the tick accumulator and returns
\* ACTION_RESET_TIMER; no second is applied by the write, and an update()
\* that follows the write directly changes neither the register nor seconds().
C14_Step ==
    /\ (last'.op = "write" /\ last'.addr = REG_SECONDS) =>
          /\ Reg(rtc'.regs, REG_SECONDS) = ByteClamp(last'.value % 128, 0, 89)
          /\ seconds(rtc'.regs) \in 0 .. 59
          /\ rtc'.m_ticks = 0
          /\ ret' = ACTION_RESET_TIMER
          /\ napplied' = napplied
    /\ (last.op = "write" /\ last.addr = REG_SECONDS /\ last'.op = "update") =>
          /\ Reg(rtc'.regs, REG_SECONDS) = Reg(rtc.regs, REG_SECONDS)
          /\ seconds(rtc'.regs) = seconds(rtc.regs)
          /\ napplied' = napplied

\* C14: i2c_write(0x00, v) stores the seconds clamped to BCD 00..59 (after
\* masking with 0x7F), sets the tick accumulator to 0 and returns
\* ACTION_RESET_TIMER: ticks pending before the write are discarded, and an
\* update() with no new tick after the write leaves seconds() at the written
\* value.
C14_SecondsWriteResetsTimer == [][C14_Step]_vars

\* The host wrote 0x42 to the seconds with one tick pending; the tick was
\* discarded and the update() after the write left seconds() at 42.
C14_Witness ==
    /\ last.op = "update" /\ nwrites = 1
    /\ nticks = 1 /\ napplied = 0 /\ rtc.m_ticks = 0
    /\ seconds(rtc.regs) = 42 /\ minutes(rtc.regs) = 59

\* A write to 0x07 returns 0 and leaves the tick accumulator as it was.
C15_Step ==
    (last'.op = "write" /\ last'.addr = REG_ALARM_1_SECONDS) =>
        /\ ret' = 0
        /\ rtc'.m_ticks = rtc.m_ticks

\* C15: i2c_write(0x07, v) (alarm-1 seconds) performs no timer reset: it
\* returns 0 and leaves the tick accumulator unchanged, so every tick pending
\* before the write is still applied by the next update().
C15_Alarm1SecondsNoTimerReset == [][C15_Step]_vars

\* The BCD field of the hours register: 5 bits in 12-hour mode, else 6.
HoursField(r) ==
    IF Bit(Reg(r, REG_HOURS), BIT_HOUR_12_HOURS) = 1
    THEN Reg(r, REG_HOURS) % 32
    ELSE Reg(r, REG_HOURS) % 64

\* C16: after any sequence of i2c_write, tick() and update() calls, at every
\* point where no update() is in progress, seconds() and minutes() are in
\* 0..59, hours() is in 0..23, day() is in 1..7, month() is in 1..12, and
\* each of the registers 0x00..0x03, 0x05, 0x06 holds valid BCD (both
\* nibbles of the masked field at most 9).
C16_TimeFieldsValid ==
    /\ seconds(rtc.regs) \in 0 .. 59
    /\ minutes(rtc.regs) \in 0 .. 59
    /\ hours(rtc.regs) \in 0 .. 23
    /\ day(rtc.regs) \in 1 .. 7
    /\ month(rtc.regs) \in 1 .. 12
    /\ IsBcd(Reg(rtc.regs, REG_SECONDS) % 128)
    /\ IsBcd(Reg(rtc.regs, REG_MINUTES) % 128)
    /\ IsBcd(HoursField(rtc.regs))
    /\ IsBcd(Reg(rtc.regs, REG_DAY) % 8)
    /\ IsBcd(Reg(rtc.regs, REG_MONTH) % 32)
    /\ IsBcd(Reg(rtc.regs, REG_YEAR))

\* C17: after every update(), date() is at least 1 and at most
\* number_of_days(month(), year()), whatever bytes the host wrote to the
\* date, month and year registers before, and the date-written flag is false.
C17_DateValidAfterUpdate ==
    (last.op = "update") =>
        /\ 1 <= date(rtc.regs)
        /\ date(rtc.regs) <= number_of_days(month(rtc.regs), year(rtc.regs))
        /\ ~rtc.m_wrote_date

\* The date register stays as it is through tick() and through every write
\* to another register (month and year included); a write of v to 0x04
\* stores v mod 64 clamped to 0x01..0x31 whatever the month; and an update()
\* after a date, month or year write first clamps the date register to
\* 0x01..BCD(number_of_days(month(), year())) and then applies the pending
\* ticks to the clamped bank.
C18_Step ==
    /\ (last'.op = "tick" \/ (last'.op = "write" /\ last'.addr # REG_DATE)) =>
          Reg(rtc'.regs, REG_DATE) = Reg(rtc.regs, REG_DATE)
    /\ (last'.op = "write" /\ last'.addr = REG_DATE) =>
          Reg(rtc'.regs, REG_DATE) = ByteClamp(last'.value % 64, 1, 49)
    /\ (last'.op = "update" /\ rtc.m_wrote_date) =>
          rtc'.regs =
            apply_ticks(
              SetReg(rtc.regs, REG_DATE,
                     ByteClamp(Reg(rtc.regs, REG_DATE), 1,
                               Bcd(number_of_days(month(rtc.regs), year(rtc.regs))))),
              rtc.m_ticks)

\* C18: i2c_write to the month (0x05) or year (0x06) register never changes
\* the date register, and i2c_write to the date register (0x04) clamps only
\* to 1..31: a date that exceeds the day count of the current month/year
\* stays as written until the next update(), which clamps it before applying
\* any pending tick.
C18_DateClampDeferred == [][C18_Step]_vars

\* On 31 January 23:59:59 the host wrote February to the month register; the
\* date stayed 31 until the update(), which clamped it to 28 and then applied
\* the pending tick: it is 1 March 00:00:00.
C18_Witness ==
    /\ last.op = "update" /\ nwrites = 1 /\ nticks = 1 /\ napplied = 1
    /\ month(rtc.regs) = 3 /\ date(rtc.regs) = 1
    /\ hours(rtc.regs) = 0 /\ seconds(rtc.regs) = 0
    /\ ~rtc.m_wrote_date

\* The eight bit positions of a byte.
BitPositions == {1, 2, 4, 8, 16, 32, 64, 128}

\* A write of v to 0x0F stores, for OSF, A1F and A2F, the old bit AND the
\* bit of v, and for every other bit (BSY included) the bit of v.
C19_Step ==
    (last'.op = "write" /\ last'.addr = REG_CTRL_2) =>
        \A k \in BitPositions :
            Bit(Reg(rtc'.regs, REG_CTRL_2), k) =
                IF k \in {BIT_CTRL_2_OSF, BIT_CTRL_2_A1F, BIT_CTRL_2_A2F}
                THEN Bit(Reg(rtc.regs, REG_CTRL_2), k) * Bit(last'.value, k)
                ELSE Bit(last'.value, k)

C20_Step ==
    /\ (last'.op = "write" /\ last'.addr = REG_CTRL_1) =>
          /\ \A k \in BitPositions :
                Bit(Reg(rtc'.regs, REG_CTRL_1), k) =
                    IF k = BIT_CTRL_1_CONV /\ Bit(Reg(rtc.regs, REG_CTRL_1), k) = 1
                    THEN 1
                    ELSE Bit(last'.value, k)
          /\ ret' = IF Bit(last'.value, BIT_CTRL_1_CONV) = 1
                    THEN ACTION_CONVERT_TEMPERATURE ELSE 0
    /\ ( /\ Bit(Reg(rtc.regs, REG_CTRL_1), BIT_CTRL_1_CONV) = 1
         /\ Bit(Reg(rtc'.regs, REG_CTRL_1), BIT_CTRL_1_CONV) = 0 )
          => last'.op = "reset"

\* C20: i2c_write(0x0E, v) stores v OR (old AND CONV): once the CONV bit
\* (0x20) of control 1 is set, no sequence of host writes clears it (only
\* reset() does); the call returns ACTION_CONVERT_TEMPERATURE if and only if
\* bit 0x20 of v is 1.
C20_Control1Write == [][C20_Step]_vars

\* CONV was set when the host wrote 0x00 to control 1: the register holds
\* 0x20 and the call returned 0.
C20_Witness ==
    /\ last = Call("write", REG_CTRL_1, 0)
    /\ Reg(rtc.regs, REG_CTRL_1) = BIT_CTRL_1_CONV
    /\ ret = 0

\* After k tick() calls the accumulator holds k mod 256, and the update()
\* that follows applies exactly k mod 256 seconds to the bank (after the
\* clamp of a pending date write) and empties the accumulator; after 256
\* ticks every register other than the date is as it was before the update.
C21_Step ==
    /\ (last' = "tick") => rtc'.m_ticks = nticks' % 256
    /\ (last' = "update") =>
          /\ napplied' = nticks % 256
          /\ rtc'.m_ticks = 0
          /\ rtc'.regs =
                apply_ticks(IF rtc.m_wrote_date THEN canonicalise_date(rtc.regs)
                                                ELSE rtc.regs,
                            nticks % 256)
    /\ (last' = "update" /\ nticks = 256) =>
          \A a \in 0 .. BankSize - 1 :
              a # REG_DATE => Reg(rtc'.regs, a) = Reg(rtc.regs, a)

\* C21: if more than 255 ticks accumulate between two update() calls the
\* 8-bit accumulator wraps modulo 256: after k tick() calls without a commit
\* the next update() advances time by exactly k mod 256 seconds, and no
\* status bit or other state records the loss.
C21_AccumulatorWraps == [][C21_Step]_vars

\* 256 ticks were committed by one update(): no second was applied, the
\* clock is 256 seconds behind the clock that committed every tick, and
\* control 2 is as it was at the start.
C21_Witness ==
    /\ last = "update" /\ nticks = 256 /\ napplied = 0 /\ overflowed
    /\ rtc.m_ticks = 0
    /\ Civil(rtc.regs) = [y |-> 2019, mo |-> 2, d |-> 28, h |-> 23, mi |-> 58, s |-> 30]
    /\ Civil(rtc2.regs) = [y |-> 2019, mo |-> 3, d |-> 1, h |-> 0, mi |-> 2, s |-> 46]
    /\ Reg(rtc.regs, REG_CTRL_2) = 0

\* tick() adds one to the accumulator and leaves the register bank and the
\* date-written flag as they are.
C22_Step ==
    (last'.op = "tick") =>
        /\ rtc'.m_ticks = (rtc.m_ticks + 1) % 256
        /\ rtc'.regs = rtc.regs
        /\ rtc'.m_wrote_date = rtc.m_wrote_date

\* C22: tick() modifies only the tick accumulator: the register bank and the
\* date-written flag are unchanged by any number of tick() calls until
\* update() is called.
C22_TickTouchesOnlyAccumulator == [][C22_Step]_vars

\* Two ticks after the host wrote the date register: both are pending, the
\* date is still 0x01 and the date-written flag is still set.
C22_Witness ==
    /\ last.op = "tick" /\ rtc.m_ticks = 2
    /\ rtc.m_wrote_date /\ Reg(rtc.regs, REG_DATE) = 1
    /\ nwrites = 1

\* The hours byte the spec's write table gives for v: with the 12-hour bit
\* the low 5 bits clamped to 0x01..0x12 with the 12-hour and PM bits, else
\* the low 6 bits clamped to 0x00..0x23.
HoursWritten(v) ==
    IF Bit(v, 64) = 1
    THEN 64 + 32 * Bit(v, 32) + ByteClamp(v % 32, 1, 18)
    ELSE ByteClamp(v % 64, 0, 35)

\* The low seven bits the write table gives for v written to the alarm
\* register a (0x07..0x0D).
AlarmField(a, v) ==
    CASE a \in {REG_ALARM_1_SECONDS, REG_ALARM_1_MINUTES, REG_ALARM_2_MINUTES} ->
           ByteClamp(v % 128, 0, 89)
      [] a \in {REG_ALARM_1_HOURS, REG_ALARM_2_HOURS} -> HoursWritten(v)
      [] OTHER ->
           IF Bit(v, 64) = 1
           THEN 64 + ByteClamp(v % 8, 1, 7)
           ELSE ByteClamp(v % 64, 1, 49)

\* A write of v to an alarm register stores bit 7 of v above the clamped
\* field; a write to a time register 0x00..0x04 stores a byte with bit 7
\* clear.
C23_Step ==
    /\ ( /\ last'.op = "write"
         /\ last'.addr \in REG_ALARM_1_SECONDS .. REG_ALARM_2_DAY_OR_DATE ) =>
          Reg(rtc'.regs, last'.addr) =
              128 * Bit(last'.value, 128) + AlarmField(last'.addr, last'.value)
    /\ (last'.op = "write" /\ last'.addr \in REG_SECONDS .. REG_DATE) =>
          Bit(Reg(rtc'.regs, last'.addr), 128) = 0

\* C23: for every address a in 0x07..0x0D and every byte v, after
\* i2c_write(a, v) bit 7 of the stored byte equals bit 7 of v, while the low
\* bits hold the range-clamped field; for the time registers 0x00..0x04 bit 7
\* of the stored byte is always 0.
C23_AlarmModeBitKept == [][C23_Step]_vars

\* The host wrote 0xFF to the alarm-2 hours: mask bit, 12-hour bit, PM bit
\* and the field clamped to 12.
C23_Witness ==
    /\ last = Call("write", REG_ALARM_2_HOURS, 255)
    /\ Reg(rtc.regs, REG_ALARM_2_HOURS) = 128 + 64 + 32 + 18

\* The hour 1..12 a 12-hour field in BCD 01..12 denotes.
Hour12(f) == ((f \div 16) * 10) + (f % 16)

\* A write of v to an hours register: the stored bits.
C24_StoredHours(st, v) ==
    IF Bit(v, 64) = 1
    THEN /\ Bit(st, 64) = 1
         /\ Bit(st, 32) = Bit(v, 32)
         /\ st % 32 = ByteClamp(v % 32, 1, 18)
    ELSE /\ Bit(st, 64) = 0
         /\ st % 64 = ByteClamp(v % 64, 0, 35)

\* What hours() returns for a 12-hour register byte st whose field is a
\* decimal 01..12.
C24_ReadHours(st, hrs) ==
    ( /\ Bit(st, 64) = 1
      /\ st % 32 \in (1 .. 9) \cup (16 .. 18) ) =>
        /\ (st % 32 = 18 /\ Bit(st, 32) = 0) => hrs = 0
        /\ (st % 32 = 18 /\ Bit(st, 32) = 1) => hrs = 12
        /\ (st % 32 # 18 /\ Bit(st, 32) = 1) => hrs = 12 + Hour12(st % 32)

C24_Step ==
    /\ ( /\ last'.op = "write"
         /\ last'.addr \in {REG_HOURS, REG_ALARM_1_HOURS, REG_ALARM_2_HOURS} ) =>
          C24_StoredHours(Reg(rtc'.regs, last'.addr) % 128, last'.value)
    /\ C24_ReadHours(Reg(rtc'.regs, REG_HOURS), hours(rtc'.regs))

\* C24: for the hours registers 0x02, 0x09 and 0x0C and every byte v: if bit
\* 6 of v is set, the stored byte has bit 6 set, bit 5 equal to bit 5 of v and
\* the low 5 bits clamped to BCD 01..12; otherwise bit 6 is clear and the low
\* 6 bits are clamped to BCD 00..23.  Through hours(), 12 AM reads as 0, 12 PM
\* as 12, and h PM (h in 1..11) as 12 + h.
C24_HoursWriteAndRead == [][C24_Step]_vars

\* The host wrote 0x7F to the hours register: 12-hour mode, PM, the field
\* clamped to 12; hours() reads noon.
C24_Witness ==
    /\ last = Call("write", REG_HOURS, 127)
    /\ Reg(rtc.regs, REG_HOURS) = 64 + 32 + 18
    /\ hours(rtc.regs) = 12

\* The number a BCD byte denotes: ten times the high nibble plus the low one.
BcdValue(b) == ((b \div 16) * 10) + (b % 16)

C25_Step ==
    /\ (last'.op = "write" /\ last'.addr = REG_MONTH) =>
          \E st \in {Reg(rtc'.regs, REG_MONTH)} :
             /\ st % 32 = ByteClamp(last'.value % 32, 1, 18)
             /\ Bit(st, 128) = Bit(last'.value, 128)
             /\ Bit(st, 64) = Bit(last'.value, 64)
             /\ Bit(st, 32) = Bit(last'.value, 32)
    /\ year(rtc'.regs) =
          1900 + BcdValue(Reg(rtc'.regs, REG_YEAR))
          + 100 * Bit(Reg(rtc'.regs, REG_MONTH), 128)
          + 200 * Bit(Reg(rtc'.regs, REG_MONTH), 64)
          + 400 * Bit(Reg(rtc'.regs, REG_MONTH), 32)

\* C25: i2c_write(0x05, v) stores the low 5 bits of v clamped to BCD 01..12
\* together with bits 7, 6 and 5 of v unchanged, and year() then equals
\* 1900 + BCD(year register) + 100*bit7 + 200*bit6 + 400*bit5 of the month
\* register.
C25_MonthWriteAndYear == [][C25_Step]_vars

\* The host wrote 0xFF to the month register of the clock at 2019: December
\* with all three century bits, the year 2619.
C25_Witness ==
    /\ last = Call("write", REG_MONTH, 255)
    /\ Reg(rtc.regs, REG_MONTH) = 128 + 64 + 32 + 18
    /\ Reg(rtc.regs, REG_YEAR) = 25
    /\ year(rtc.regs) = 2619

\* The century bits (c0, c1, c2) = bits 7, 6, 5 of the month register.
CenturyBits(r) ==
    << Bit(Reg(r, REG_MONTH), 128), Bit(Reg(r, REG_MONTH), 64),
       Bit(Reg(r, REG_MONTH), 32) >>

\* The last second of the year y, and the first second of the year y.
YearEnd(y) == [y |-> y, mo |-> 12, d |-> 31, h |-> 23, mi |-> 59, s |-> 59]

YearStart(y) == [y |-> y, mo |-> 1, d |-> 1, h |-> 0, mi |-> 0, s |-> 0]

\* One tick and commit at the last second of the year y gives the first
\* second of y + 1 with the century bits cb, on both clocks.
RolloverStep(y, cb) ==
    ( /\ last' = "update"
      /\ rtc2.m_ticks = 1
      /\ Civil(rtc2.regs) = YearEnd(y) ) =>
        /\ Civil(rtc2'.regs) = YearStart(y + 1)
        /\ CenturyBits(rtc2'.regs) = cb
        /\ Civil(rtc'.regs) = YearStart(y + 1)
        /\ CenturyBits(rtc'.regs) = cb

C26_Step ==
    /\ RolloverStep(2099, << 0, 1, 0 >>)
    /\ RolloverStep(2199, << 1, 1, 0 >>)
    /\ RolloverStep(2399, << 1, 0, 1 >>)

\* C26: century rollover: starting at 2099-12-31 23:59:59, one tick and
\* commit yields 2100-01-01 00:00:00 with century bits (c0=0, c1=1, c2=0);
\* the 2199 to 2200 rollover yields (c0=1, c1=1, c2=0); the 2399 to 2400
\* rollover yields (c0=1, c1=0, c2=1), where c0, c1, c2 are bits 7, 6, 5 of
\* the month register: the bits that year() = 1900 + ... reads as the new
\* century.
C26_CenturyRollover == [][C26_Step]_vars

C26_StatedStep ==
    /\ RolloverStep(2099, << 1, 0, 0 >>)
    /\ RolloverStep(2199, << 0, 1, 0 >>)
    /\ RolloverStep(2399, << 0, 0, 1 >>)

\* C26 as stated: the rollovers to 2100, 2200 and 2400 yield the century
\* bits (1, 0, 0), (0, 1, 0) and (0, 0, 1).
C26_RolloverBitsAsStated == [][C26_StatedStep]_vars

\* The clock has rolled over from 2099 to 2100 by one tick and commit.
C26_Witness ==
    /\ last = "update" /\ nticks = 1 /\ napplied = 1
    /\ Civil(rtc2.regs) = YearStart(2100)
    /\ CenturyBits(rtc2.regs) = << 0, 1, 0 >>
    /\ Reg(rtc2.regs, REG_MONTH) = 64 + 1
    /\ Reg(rtc2.regs, REG_YEAR) = 0

\* The registers 0x00..0x13 the spec lists for a reset clock.
ResetRegisters ==
    << 0, 0, 0, 2, 1, 128 + 1, 16 + 9,
       0, 0, 0, 1,
       0, 0, 1,
       BIT_CTRL_1_RS2 + BIT_CTRL_1_RS1 + BIT_CTRL_1_INTCN,
       BIT_CTRL_2_OSF,
       0, 255, 192, 0 >>

IsResetState(o) ==
    /\ SubSeq(o.regs, 1, REG_SRAM) = ResetRegisters
    /\ Civil(o.regs) = [y |-> 2019, mo |-> 1, d |-> 1, h |-> 0, mi |-> 0, s |-> 0]
    /\ day(o.regs) = 2
    /\ o.m_ticks = 0
    /\ o.m_wrote_date = FALSE

C27_Step ==
    /\ (last'.op = "reset") => IsResetState(rtc')
    /\ (last.op = "init") => \A fill \in {0, 85, 255} : IsResetState(Soft323x(fill))

\* C27: after reset() (and after construction) the registers 0x00..0x13 hold:
\* time 2019-01-01, day-of-week 2, 00:00:00 in 24-hour mode with only century
\* bit 7 set in the month register; alarm seconds/minutes/hours registers 0
\* and both alarm day/date registers 1; control 1 = RS2|RS1|INTCN; control 2 =
\* OSF only; aging 0; temperature bytes 0xFF, 0xC0; control 3 = 0; the tick
\* accumulator is 0 and the date-written flag is false, whatever the state
\* before the reset.
C27_ResetState == [][C27_Step]_vars

\* reset() was called with a tick pending after the host had written 0xFF to
\* the first SRAM byte, which the reset leaves in place.
C27_Witness ==
    /\ last.op = "reset"
    /\ nticks = 1 /\ napplied = 0 /\ nwrites = 1
    /\ Reg(rtc.regs, REG_SRAM) = 255
    /\ IsResetState(rtc)

C28_Step ==
    (last'.op = "set_oscillator_stop_flag") =>
        /\ Bit(Reg(rtc'.regs, REG_CTRL_2), 128) = 1
        /\ \A k \in BitPositions \ {128} :
              Bit(Reg(rtc'.regs, REG_CTRL_2), k) = Bit(Reg(rtc.regs, REG_CTRL_2), k)
        /\ \A a \in 0 .. BankSize - 1 :
              a # REG_CTRL_2 => Reg(rtc'.regs, a) = Reg(rtc.regs, a)
        /\ rtc'.m_ticks = rtc.m_ticks
        /\ rtc'.m_wrote_date = rtc.m_wrote_date
        /\ set_oscillator_stop_flag(rtc') = rtc'

\* C28: set_oscillator_stop_flag() sets bit 0x80 of control 2 and changes
\* nothing else: every other bit of control 2, every other register, the tick
\* accumulator and the date-written flag are unchanged; calling it twice has
\* the same effect as calling it once.
C28_OscillatorStopFlagOnly == [][C28_Step]_vars

\* The flag was set on a clock whose control 2 held both alarm flags and no
\* OSF (the host had cleared it), with a tick pending.
C28_Witness ==
    /\ last.op = "set_oscillator_stop_flag"
    /\ Reg(rtc.regs, REG_CTRL_2) = 128 + 2 + 1
    /\ nwrites = 1 /\ nticks = 2 /\ rtc.m_ticks = 1

\* The aging-offset register and the SRAM.
PlainAddrs == {REG_AGING_OFFSET} \cup (REG_SRAM .. BankSize - 1)

C29_Step ==
    \A a \in PlainAddrs :
        /\ (last'.op = "write" /\ last'.addr = a) => i2c_read(rtc', a) = last'.value
        /\ ( \/ last'.op = "write" /\ last'.addr # a
             \/ last'.op = "tick"
             \/ last'.op = "update" ) => i2c_read(rtc', a) = i2c_read(rtc, a)

\* C29: for every address a in [0x14, 0x14+N) of the SRAM and for the
\* aging-offset register 0x10, i2c_read(a) returns the byte of the last
\* i2c_write(a, v); no write to another address, no tick() and no update()
\* changes it.
C29_PlainBytesReadBack == [][C29_Step]_vars

\* The host had written 0xA5, 0x5A, 0xC3 to the aging offset and the SRAM and
\* then 0xFF to the second SRAM byte; a tick and an update later the three
\* bytes read 0xA5, 0x5A, 0xFF.
C29_Witness ==
    /\ last.op = "update" /\ nwrites = 1 /\ napplied = 1
    /\ i2c_read(rtc, REG_AGING_OFFSET) = 165
    /\ i2c_read(rtc, REG_SRAM) = 90
    /\ i2c_read(rtc, REG_SRAM + 1) = 255

C30_Step ==
    /\ \A a \in BankSize .. 255 : i2c_read(rtc', a) = 0
    /\ (last'.op = "write" /\ last'.addr >= BankSize) =>
          /\ ret' = 0
          /\ rtc'.regs = rtc.regs
          /\ rtc'.m_ticks = rtc.m_ticks
          /\ rtc'.m_wrote_date = rtc.m_wrote_date

\* C30: for every address a >= bank size (0x14 + SRAM size), i2c_read(a)
\* returns 0 and i2c_write(a, v) returns 0 and leaves the whole register
\* bank, the tick accumulator and the date-written flag unchanged.
C30_OutOfRangeIgnored == [][C30_Step]_vars

\* The host wrote 0xFF to address 0xFF with a tick pending: the call returned
\* 0 and the bank, SRAM included, and the accumulator are what they were.
C30_Witness ==
    /\ last = Call("write", 255, 255) /\ ret = 0
    /\ rtc.m_ticks = 1 /\ ~rtc.m_wrote_date
    /\ Reg(rtc.regs, REG_AGING_OFFSET) = 165
    /\ Reg(rtc.regs, REG_SRAM) = 90 /\ Reg(rtc.regs, REG_SRAM + 1) = 195
    /\ i2c_read(rtc, 255) = 0 /\ i2c_read(rtc, BankSize) = 0

C31_Step ==
    (last'.op = "write" /\ last'.addr \in {REG_TEMP_MSB, REG_TEMP_LSB}) =>
        /\ ret' = 0
        /\ rtc'.regs = rtc.regs
        /\ rtc'.m_ticks = rtc.m_ticks
        /\ rtc'.m_wrote_date = rtc.m_wrote_date

\* C31: i2c_write(0x11, v) and i2c_write(0x12, v) are no-ops for every v:
\* they return 0 and leave the temperature bytes and all other state
\* unchanged.
C31_TemperatureWritesIgnored == [][C31_Step]_vars

\* The host wrote 0x00 to the temperature MSB with a tick pending: the call
\* returned 0, the temperature bytes are still 0xFF, 0xC0 and the tick is
\* still pending.
C31_Witness ==
    /\ last = Call("write", REG_TEMP_MSB, 0) /\ ret = 0
    /\ Reg(rtc.regs, REG_TEMP_MSB) = 255 /\ Reg(rtc.regs, REG_TEMP_LSB) = 192
    /\ rtc.m_ticks = 1

C32_Step ==
    /\ (last'.op = "write" /\ last'.addr = REG_CTRL_3) =>
          Reg(rtc'.regs, REG_CTRL_3) = last'.value % 2
    /\ Reg(rtc.regs, REG_CTRL_3) \in {0, 1}
    /\ Reg(rtc'.regs, REG_CTRL_3) \in {0, 1}

\* C32: after i2c_write(0x13, v) the control-3 register equals v AND 0x01 for
\* every v, so bits 1..7 of control 3 are 0 in every reachable state.
C32_Control3KeepsBit0 == [][C32_Step]_vars

\* The host wrote 0xFF to control 3: the register holds 0x01.
C32_Witness ==
    /\ last = Call("write", REG_CTRL_3, 255)
    /\ Reg(rtc.regs, REG_CTRL_3) = 1

C33_Step ==
    /\ (last'.op = "read" /\ last'.addr < BankSize) =>
          ret' = Reg(rtc.regs, last'.addr)
    /\ (last'.op = "read") =>
          /\ rtc'.regs = rtc.regs
          /\ rtc'.m_ticks = rtc.m_ticks
          /\ rtc'.m_wrote_date = rtc.m_wrote_date
    /\ \A a \in 0 .. BankSize - 1 : i2c_read(rtc', a) = Reg(rtc'.regs, a)

\* C33: i2c_read(a) returns the stored byte bank[a] for every a below the
\* bank size and has no side effects: the register bank, the tick accumulator
\* and the date-written flag are the same before and after any number of
\* reads.
C33_ReadReturnsByteOnly == [][C33_Step]_vars

\* The host read the seconds of the clock seeded at 13:59:58 with two ticks
\* pending and a date write not yet committed: the read returned 0x58 and
\* the ticks and the flag are still there.
C33_Witness ==
    /\ last = Call("read", REG_SECONDS, 0) /\ ret = 88
    /\ Reg(rtc.regs, REG_SECONDS) = 88
    /\ rtc.m_ticks = 2 /\ rtc.m_wrote_date

\* The century bits read as the binary number c0 + 2*c1 + 4*c2.
CenturyCount(r) ==
    Bit(Reg(r, REG_MONTH), 128) + 2 * Bit(Reg(r, REG_MONTH), 64)
    + 4 * Bit(Reg(r, REG_MONTH), 32)

\* What an update() that takes the BCD year of the bank r from 99 to 00 in
\* the bank q has done to the century bits and to year().
CenturyAdvanced(r, q) ==
    ( /\ last' = "update"
      /\ Reg(r, REG_YEAR) = 9 * 16 + 9
      /\ Reg(q, REG_YEAR) = 0 ) =>
        /\ CenturyCount(q) = (CenturyCount(r) + 1) % 8
        /\ year(q) = IF year(r) = 2699 THEN 1900 ELSE year(r) + 1

\* The toggle applied to the bank r: the counter is incremented modulo 8 and
\* the month field is left alone.
ToggleCounts(r) ==
    /\ CenturyCount(toggle_century(r)) = (CenturyCount(r) + 1) % 8
    /\ Reg(toggle_century(r), REG_MONTH) % 32 = Reg(r, REG_MONTH) % 32

C34_Step ==
    /\ CenturyAdvanced(rtc.regs, rtc'.regs)
    /\ CenturyAdvanced(rtc2.regs, rtc2'.regs)
    /\ ToggleCounts(rtc.regs)
    /\ ToggleCounts(rtc2.regs)

\* C34: at each rollover of the BCD year from 99 to 00, the century bits
\* (c0 = bit 7, c1 = bit 6, c2 = bit 5 of the month register) advance as a
\* 3-bit binary counter c0 + 2*c1 + 4*c2 incremented by 1 modulo 8, the month
\* field in the low 5 bits being unchanged by the toggle; hence year()
\* increases by exactly 1 across every century boundary except from 2699,
\* where it wraps to 1900.
C34_CenturyCounter == [][C34_Step]_vars

\* One tick and commit at the last second of 2699 has wrapped the clock to
\* the first second of 1900, all century bits clear.
C34_Witness ==
    /\ last = "update" /\ nticks = 1 /\ napplied = 1
    /\ Civil(rtc2.regs) = YearStart(1900)
    /\ CenturyCount(rtc2.regs) = 0
    /\ Reg(rtc2.regs, REG_MONTH) = 1

-----------------------------------------------------------------------------
(* SpecBcd: a clock at the last second of 2099, one host write of any byte *)
(* to one of the time registers, then tick() and update() for a minute     *)

\* Ticks per behaviour, ticks pending at a time, host writes per behaviour.
MaxBcdTicks == 60

MaxBcdPending == 1

MaxBcdWrites == 1

BcdAddrs == REG_SECONDS .. REG_YEAR

BcdValues == 0 .. 255

\* The 24-hour and the 12-hour clock at 2099-12-31 23:59:59.
BcdSeeds ==
    { Seed(TimeWrites([y |-> 2099, mo |-> 12, d |-> 31, dow |-> 4,
                       h |-> 23, mi |-> 59, s |-> 59], FALSE)),
      Seed(TimeWrites([y |-> 2099, mo |-> 12, d |-> 31, dow |-> 4,
                       h |-> 23, mi |-> 59, s |-> 59], TRUE)) }

\* rtc2 keeps the clock as the host left it.
BcdInit ==
    /\ rtc \in BcdSeeds
    /\ rtc2 = rtc
    /\ last = Call("init", 0, 0) /\ ret = 0
    /\ NoCounters /\ NoMain /\ NoDriver

BcdWrite ==
    /\ nwrites < MaxBcdWrites
    /\ nticks = 0
    /\ \E a \in BcdAddrs, v \in BcdValues :
         \E w \in {i2c_write(rtc, a, v)} :
            /\ rtc' = w.obj
            /\ rtc2' = w.obj
            /\ ret' = w.res
            /\ last' = Call("write", a, v)
    /\ nwrites' = nwrites + 1
    /\ UNCHANGED << nticks, napplied, overflowed, mainVars, driverVars >>

BcdTick ==
    /\ nticks < MaxBcdTicks
    /\ rtc.m_ticks < MaxBcdPending
    /\ rtc' = tick(rtc)
    /\ nticks' = nticks + 1
    /\ last' = Call("tick", 0, 0)
    /\ UNCHANGED << rtc2, ret, napplied, nwrites, overflowed, mainVars, driverVars >>

BcdUpdate ==
    /\ rtc' = update(rtc)
    /\ napplied' = napplied + rtc.m_ticks
    /\ last' = Call("update", 0, 0)
    /\ UNCHANGED << rtc2, ret, nticks, nwrites, overflowed, mainVars, driverVars >>

BcdNext == BcdWrite \/ BcdTick \/ BcdUpdate

SpecBcd == BcdInit /\ [][BcdNext]_vars

\* The BCD field of the time register a in the bank r, without the format
\* and century bits.
TimeField(r, a) ==
    CASE a = REG_HOURS -> IF Bit(Reg(r, a), 64) = 1 THEN Reg(r, a) % 32 ELSE Reg(r, a) % 64
      [] a = REG_DAY -> Reg(r, a) % 8
      [] a = REG_DATE -> Reg(r, a) % 64
      [] a = REG_MONTH -> Reg(r, a) % 32
      [] a = REG_YEAR -> Reg(r, a)
      [] OTHER -> Reg(r, a) % 128

\* The least and the greatest byte of the field.
TimeFieldMin(r, a) ==
    CASE a \in {REG_DAY, REG_DATE, REG_MONTH} -> 1
      [] a = REG_HOURS -> IF Bit(Reg(r, a), 64) = 1 THEN 1 ELSE 0
      [] OTHER -> 0

TimeFieldMax(r, a) ==
    CASE a = REG_HOURS -> IF Bit(Reg(r, a), 64) = 1 THEN 18 ELSE 35
      [] a = REG_DAY -> 7
      [] a = REG_DATE -> 49
      [] a = REG_MONTH -> 18
      [] a = REG_YEAR -> 153
      [] OTHER -> 89

\* The field is a decimal number of its range.
TimeFieldValid(r, a) ==
    /\ TimeField(r, a) % 16 <= 9
    /\ TimeField(r, a) >= TimeFieldMin(r, a)
    /\ TimeField(r, a) <= TimeFieldMax(r, a)

\* The number of ticks after which a seconds register holding sec is 00 again.
TicksToWrap(sec) ==
    IF sec % 16 >= 10 THEN 51 - 10 * (sec \div 16) ELSE 60 - BcdValue(sec)

\* The bank q is the bank p after one second: the field a was malformed and
\* has been incremented.
MalformedIncremented(p, q, a) ==
    /\ TimeField(p, a) % 16 >= 10
    /\ TimeField(q, a) # TimeField(p, a)

\* The carry chain from p to q: a field that wrapped has incremented the next.
CarryChain(p, q) ==
    /\ Reg(q, REG_SECONDS) # Reg(p, REG_SECONDS)
    /\ (Reg(q, REG_SECONDS) = 0) => Reg(q, REG_MINUTES) # Reg(p, REG_MINUTES)
    /\ (Reg(q, REG_SECONDS) = 0 /\ Reg(q, REG_MINUTES) = 0) =>
          Reg(q, REG_HOURS) # Reg(p, REG_HOURS)
    /\ ( /\ Reg(q, REG_SECONDS) = 0 /\ Reg(q, REG_MINUTES) = 0
         /\ Reg(q, REG_HOURS) \in {0, 64 + 18} ) =>
          /\ Reg(q, REG_DAY) # Reg(p, REG_DAY)
          /\ Reg(q, REG_DATE) # Reg(p, REG_DATE)
          /\ (TimeField(q, REG_DATE) = 1) =>
                /\ TimeField(q, REG_MONTH) # TimeField(p, REG_MONTH)
                /\ (TimeField(q, REG_MONTH) = 1) => Reg(q, REG_YEAR) # Reg(p, REG_YEAR)

C35_AppliedOne ==
    ( /\ last'.op = "update"
      /\ napplied' = napplied + 1 ) =>
        \E p \in {IF rtc.m_wrote_date THEN canonicalise_date(rtc.regs) ELSE rtc.regs} :
            /\ \A a \in BcdAddrs :
                  MalformedIncremented(p, rtc'.regs, a) => TimeFieldValid(rtc'.regs, a)
            /\ CarryChain(p, rtc'.regs)
            /\ (napplied' = TicksToWrap(Reg(rtc2.regs, REG_SECONDS))) =>
                  Reg(rtc'.regs, REG_SECONDS) = 0

C35_Step ==
    /\ C35_AppliedOne
    /\ TicksToWrap(Reg(rtc2'.regs, REG_SECONDS)) \in 1 .. 60
    /\ \A a \in BcdAddrs : TimeField(rtc'.regs, a) <= TimeFieldMax(rtc'.regs, a)

\* C35: if a time register holds a value whose low nibble is >= 0xA (which a
\* host write can leave, since the clamp compares nibble-wise), the advance
\* engine tolerates it: the next increment of that field yields a value with
\* low nibble <= 9 within the field's range, and from any state reachable by
\* host writes repeated tick()/update() keeps advancing time (seconds wrap to
\* 00 within at most 60 ticks; no field gets stuck or counts past its mask).
C35_MalformedBcdTolerated == [][C35_Step]_vars

\* The host wrote 0x0A to the seconds; the first tick made them 0x10 and the
\* 51st tick 00.
C35_Witness ==
    /\ last.op = "update" /\ napplied = 51
    /\ Reg(rtc2.regs, REG_SECONDS) = 10
    /\ Reg(rtc.regs, REG_SECONDS) = 0
    /\ Reg(rtc.regs, REG_MINUTES) = 0

C36_Step ==
    (last'.op = "update") =>
        /\ \A a \in REG_ALARM_1_SECONDS .. BankSize - 1 :
              a # REG_CTRL_2 => Reg(rtc'.regs, a) = Reg(rtc.regs, a)
        /\ \A k \in BitPositions \ {BIT_CTRL_2_A1F, BIT_CTRL_2_A2F} :
              Bit(Reg(rtc'.regs, REG_CTRL_2), k) = Bit(Reg(rtc.regs, REG_CTRL_2), k)

\* C36: update() modifies only the time registers 0x00..0x06 and the A1F/A2F
\* bits of control 2: the alarm registers 0x07..0x0D, control 1, the other
\* bits of control 2 (OSF, BSY, bits 3..6), aging offset, temperature bytes,
\* control 3 and the SRAM are unchanged by any update().
C36_UpdateFrame == [][C36_Step]_vars

\* An update() applied a tick to the clock with both alarms fully masked
\* after the host had written 0xFF to control 2: both flags are set above the
\* bits 2..6 the host wrote, the time is 1 February 00:00:00.
C36_Witness ==
    /\ last.op = "update" /\ napplied = 1 /\ nwrites = 1
    /\ Reg(rtc.regs, REG_CTRL_2) = 124 + BIT_CTRL_2_A1F + BIT_CTRL_2_A2F
    /\ Reg(rtc.regs, REG_ALARM_1_SECONDS) = 128
    /\ Reg(rtc.regs, REG_DATE) = 1 /\ Reg(rtc.regs, REG_SECONDS) = 0

C37_Step ==
    (last'.op = "update") =>
        /\ (rtc.m_ticks = 0 /\ ~rtc.m_wrote_date) => rtc' = rtc
        /\ (rtc.m_ticks = 0) =>
              Reg(rtc'.regs, REG_CTRL_2) = Reg(rtc.regs, REG_CTRL_2)
        /\ update(rtc') = rtc'

\* C37: update() with no pending tick and the date-written flag clear changes
\* nothing: the whole register bank (alarm flags included) is unchanged, so
\* update(); update() with no tick() in between equals a single update(), and
\* a host write that makes the time equal to an unmasked alarm does not set
\* the alarm flag until a later tick produces a match.
C37_UpdateWithoutTick == [][C37_Step]_vars

\* One second after construction the host wrote 00 to the seconds: the time
\* is again 1 January 00:00:00, which the unmasked alarm 1 of the reset state
\* matches; the update() after the write has left A1F clear.
C37_Witness ==
    /\ last.op = "update" /\ napplied = 1 /\ nwrites = 1
    /\ rtc.m_ticks = 0
    /\ Civil(rtc.regs) = [y |-> 2019, mo |-> 1, d |-> 1, h |-> 0, mi |-> 0, s |-> 0]
    /\ Reg(rtc.regs, REG_ALARM_1_SECONDS) = 0
    /\ alarm1(rtc.regs)
    /\ Reg(rtc.regs, REG_CTRL_2) = BIT_CTRL_2_OSF

\* The hours of alarm register a are unmasked and in the other format than
\* the hours register of the clock.
OtherFormat(r, a) ==
    /\ Bit(Reg(r, a), 128) = 0
    /\ Bit(Reg(r, a), 64) # Bit(Reg(r, REG_HOURS), 64)

\* The flag f of control 2 has risen from the bank p to the bank q.
Risen(p, q, f) == Bit(Reg(p, REG_CTRL_2), f) = 0 /\ Bit(Reg(q, REG_CTRL_2), f) = 1

C38_Step ==
    /\ OtherFormat(rtc.regs, REG_ALARM_1_HOURS) => ~Risen(rtc.regs, rtc'.regs, BIT_CTRL_2_A1F)
    /\ OtherFormat(rtc.regs, REG_ALARM_2_HOURS) => ~Risen(rtc.regs, rtc'.regs, BIT_CTRL_2_A2F)
    /\ ( /\ napplied' = napplied + 1
         /\ Bit(Reg(rtc.regs, REG_ALARM_1_HOURS), 128) = 0
         /\ Risen(rtc.regs, rtc'.regs, BIT_CTRL_2_A1F) ) =>
          Reg(rtc'.regs, REG_ALARM_1_HOURS) % 128 = Reg(rtc'.regs, REG_HOURS) % 128
    /\ ( /\ napplied' = napplied + 1
         /\ Bit(Reg(rtc.regs, REG_ALARM_2_HOURS), 128) = 0
         /\ Risen(rtc.regs, rtc'.regs, BIT_CTRL_2_A2F) ) =>
          Reg(rtc'.regs, REG_ALARM_2_HOURS) % 128 = Reg(rtc'.regs, REG_HOURS) % 128

\* C38: when the hours field of an alarm is unmasked, the alarm's hour
\* comparison is on bits 0..6 of the raw registers, format bits included: an
\* alarm whose hours register was written in 24-hour format never fires while
\* the clock's hours register is in 12-hour mode (and vice versa), even at
\* the same hour of the day.
C38_AlarmHoursComparedRaw == [][C38_Step]_vars

\* The 12-hour clock has reached 1:59:00 PM on the 9th, day 3; both alarms
\* are set to 59 minutes, hour 0x13 (13 in 24-hour format), the 9th / day 3,
\* and neither flag is set.
C38_Witness ==
    /\ last = "update" /\ napplied = 2 /\ nwrites = 0
    /\ Reg(rtc.regs, REG_HOURS) = 64 + 32 + 1
    /\ hours(rtc.regs) = 13 /\ minutes(rtc.regs) = 59 /\ seconds(rtc.regs) = 0
    /\ Reg(rtc.regs, REG_ALARM_1_HOURS) = 19
    /\ Reg(rtc.regs, REG_ALARM_2_HOURS) = 19
    /\ Reg(rtc.regs, REG_CTRL_2) % 4 = 0

\* The states of the driver.
I2cStates ==
    { I2C_IDLE, I2C_START, I2C_START_OK, I2C_HAS_ADDR, I2C_RECV_BYTE,
      I2C_RECV_BYTE_OK, I2C_SEND_READY, I2C_SEND_BYTE, I2C_SEND_BYTE_OK, I2C_ERR }

\* What the handler does with a bus error in the driver state st.
BusErrorIn(st) == TwiIsr(rtc, st, i2c_addr, i2c_data, "TW_BUS_ERROR", TWDR)

C39_Step ==
    /\ (last' = "isr_bus_error") =>
          /\ i2c_status' = I2C_IDLE
          /\ rtc' = rtc
          /\ napplied' = napplied
          /\ TWDR' = TWDR /\ i2c_addr' = i2c_addr /\ i2c_data' = i2c_data
    /\ \A st \in I2cStates :
          \E res \in {BusErrorIn(st)} :
             /\ res.status = I2C_IDLE
             /\ res.what = "isr_none"
             /\ res.rtc = rtc

\* C39: in the example firmware, a bus error (TW_BUS_ERROR) in any driver
\* state sets the driver state to I2C_IDLE and calls none of rtc.update(),
\* rtc.i2c_write(), rtc.i2c_read(): the RTC registers, the tick accumulator
\* and the date-written flag are unchanged by the error, and bytes of the
\* aborted transaction already written stay written.
C39_BusErrorOnlyIdles == [][C39_Step]_vars

\* The master addressed the device, sent the register pointer 0x0F and the
\* byte 0x00, which cleared OSF in control 2; the bus error that followed
\* left the byte written, a tick pending and the driver idle.
C39_Witness ==
    /\ last = "isr_bus_error" /\ nevents = 4
    /\ i2c_status = I2C_IDLE /\ i2c_addr = 16 /\ i2c_data = 0
    /\ Reg(rtc.regs, REG_CTRL_2) = 0
    /\ rtc.m_ticks = 1

=============================================================================
